---- MODULE Spec2Model ----
(***************************************************************************)
(* The control plane of fabio (package main): the registration retry loop  *)
(* initBackend, the hot-reload loop watchBackend, the listener start-up    *)
(* startAdmin / startServers, the lookups of the listener units and the    *)
(* shutdown handler registered with exit.Listen.                           *)
(*                                                                         *)
(* The goroutines are interleaved at the granularity of the statements     *)
(* that touch shared state: every process has a program counter (mpc for   *)
(* main, hpc for the shutdown handler, wpc for watchBackend, units for the *)
(* listener goroutines, lkpc for a lookup in flight).                      *)
(***************************************************************************)
EXTENDS Integers, Sequences, FiniteSets, TLC

\* ------------------------------------------------------------------ bounds
MaxLookups == 1         \* lookups issued by the proxy listeners
MaxRetry == 2           \* largest cfg.Registry.Retry, in clock ticks
MaxTimeoutSteps == 2    \* cfg.Registry.Timeout is 0..MaxTimeoutSteps retry intervals
MaxAttemptTime == 1     \* longest time one construct+register attempt takes
MaxListen == 1          \* listener descriptors in cfg.Listen

\* ------------------------------------------------------------ directive text
\* A directive text is a sequence of characters. "a" is a well-formed route
\* directive, "!" a malformed one, NL the line separator.
NL == "\n"
Snapshots == { <<>>, <<"a">>, <<"!">> }
Hosts == { "a", "b" }

\* svccfg + "\n" + mancfg
Concat(svc, man) == svc \o <<NL>> \o man

\* the value route.NewTable returns next to a non-nil error
NilTable == <<"nil">>
\* the table the route package holds before the first SetTable
EmptyTable == <<>>

\* route.NewTable(text): fails on a malformed directive, else the routes of
\* the non-blank lines in input order.
NewTable(text) ==
    IF \E i \in DOMAIN text : text[i] = "!"
    THEN [err |-> TRUE, t |-> NilTable]
    ELSE [err |-> FALSE, t |-> SelectSeq(text, LAMBDA c : c # NL)]

\* Table.Lookup / Table.LookupHost: the target of a host, or none.
TableLookup(tbl, host) ==
    IF \E i \in DOMAIN tbl : tbl[i] = host THEN host ELSE "none"

\* ------------------------------------------------------------ configuration
Protos == { "http", "https", "tcp", "tcp+sni" }
ProtoOrder == << "http", "https", "tcp", "tcp+sni" >>
\* a listener descriptor: the protocol and the name of the certificate
\* source ("" for none; https has one, as parseListen demands)
Descriptor(proto, cs) == [Proto |-> proto, CertSource |-> cs]
\* cfg.Listen: MaxListen listener descriptors
ListenConfig ==
    [i \in 1..MaxListen |->
       LET proto == ProtoOrder[((i - 1) % Len(ProtoOrder)) + 1]
       IN  Descriptor(proto, IF proto \in { "https", "tcp" } THEN "name" ELSE "")]
\* the backend kinds initBackend knows; config.Load accepts any string
BackendKinds == { "file", "static", "consul" }
\* the configurations of the whole program: one retry interval, no timeout
Configs ==
    [ Backend : { "file", "value" },
      Retry   : { 1 },
      Steps   : { 0 },
      Prof    : BOOLEAN,
      Listen  : { ListenConfig } ]
\* the configurations of the registration retry loop: every timing
RetryConfigs ==
    [ Backend : { "file", "value" },
      Retry   : 1..MaxRetry,
      Steps   : 0..MaxTimeoutSteps,
      Prof    : BOOLEAN,
      Listen  : { ListenConfig } ]

VARIABLES
    cfg,            \* the loaded config.Config (immutable)
    exitState,      \* "running", "code0", "code1" or "panic"
    shuttingDown,   \* var shuttingDown int32
    signals,        \* termination signals delivered so far: "none", "one", "many"
    mpc,            \* main: position in main / initBackend / startServers
    hpc,            \* the exit.Listen handler goroutine
    wpc,            \* the watchBackend goroutine
    \* initBackend
    registryDefault, \* registry.Default: "nil", "unregistered" or "registered"
    err,            \* initBackend's err is non-nil
    now,            \* clock ticks since initBackend was entered
    deadline,       \* initBackend's deadline
    overhead,       \* ticks spent outside the exact retry sleeps
    attempts,       \* loop iterations started (construct + register)
    lateAttempts,   \* iterations started while shuttingDown was already set
    \* watchBackend
    svccfg, mancfg, last, next, t,
    table,          \* the current table of package route
    first,          \* channel first: "open" or "closed"
    onceDone,       \* sync.Once has run
    failed,         \* some compile has failed
    nSet,           \* SetTable calls: "none", "one", "many"
    nClose,         \* close(first) calls
    \* listeners
    units,          \* serving unit -> "none", "spawned", "serving", "stopped"
    kinds,          \* serving unit -> the kind of proxy it was started as
    idx,            \* startServers: index of the next cfg.Listen entry
    lkpc, lksnap, lkhost, lkres, nLookups, notFound,
    \* shutdown handler
    hlog,           \* the calls the handler has made, in order
    \* call frames of the functions that are also run on their own
    lr,             \* logRoutes: arguments, position, recursion depth, log output
    ld,             \* config.Load: arguments, position, return value
    pl              \* parseListen: arguments, keys still to visit, l, csName, err

vars == << cfg, exitState, shuttingDown, signals, mpc, hpc, wpc,
           registryDefault, err, now, deadline, overhead, attempts, lateAttempts,
           svccfg, mancfg, last, next, t, table, first, onceDone,
           failed, nSet, nClose,
           units, kinds, idx, lkpc, lksnap, lkhost, lkres, nLookups, notFound, hlog,
           lr, ld, pl >>

\* the variables of the control plane
mainVars == << cfg, exitState, shuttingDown, signals, mpc, hpc, wpc,
               registryDefault, err, now, deadline, overhead, attempts, lateAttempts,
               svccfg, mancfg, last, next, t, table, first, onceDone,
               failed, nSet, nClose,
               units, kinds, idx, lkpc, lksnap, lkhost, lkres, nLookups, notFound,
               hlog >>
\* the call frames
fnVars == << lr, ld, pl >>

ibVars == << registryDefault, err, now, deadline, overhead, attempts, lateAttempts >>
wbVars == << svccfg, mancfg, last, next, t, table, first, onceDone,
             failed, nSet, nClose >>
lkVars == << lkpc, lksnap, lkhost, lkres, nLookups, notFound >>

Running == exitState = "running"
Timeout == cfg.Steps * cfg.Retry
\* serving units: the admin listener and one per cfg.Listen entry
Admin == 0
UnitIds == { Admin } \cup (1..MaxListen)

InitState ==
    /\ exitState = "running"
    /\ shuttingDown = 0
    /\ signals = "none"
    /\ mpc = "load"
    /\ hpc = "idle"
    /\ wpc = "off"
    /\ registryDefault = "nil"
    /\ err = FALSE
    /\ now = 0 /\ deadline = 0 /\ overhead = 0
    /\ attempts = 0 /\ lateAttempts = 0
    /\ svccfg = <<>> /\ mancfg = <<>> /\ last = <<>> /\ next = <<>>
    /\ t = NilTable
    /\ table = EmptyTable
    /\ first = "open"
    /\ onceDone = FALSE
    /\ failed = FALSE /\ nSet = "none" /\ nClose = 0
    /\ units = [u \in UnitIds |-> "none"]
    /\ kinds = [u \in UnitIds |-> "none"]
    /\ idx = 1
    /\ lkpc = "idle" /\ lksnap = EmptyTable /\ lkhost = "a" /\ lkres = "none"
    /\ nLookups = 0 /\ notFound = 0
    /\ hlog = <<>>

\* no call of the function is in progress
NoCall == [pc |-> "none"]
NoCalls == lr = NoCall /\ ld = NoCall /\ pl = NoCall

Init == cfg \in Configs /\ InitState /\ NoCalls

\* counting events as none / one / many
OneMore(n) == IF n = "none" THEN "one" ELSE "many"

\* ------------------------------------------------------------ package exit
\* exit.Fatal / exit.Exit(code): the process ends at once with the code.
ProcessExit(code) == exitState' = code

\* An exit.Listen that calls the handler for every signal.
Signal_EverySignal ==
    /\ Running /\ mpc # "load"
    /\ signals' = OneMore(signals)
    /\ hpc' = "store"
    /\ UNCHANGED << fnVars, kinds, cfg, exitState, shuttingDown, mpc, wpc, ibVars, wbVars,
                    units, idx, lkVars, hlog >>

\* A termination signal reaches the goroutine started by exit.Listen (main
\* has called exit.Listen when it is past config.Load). The first one starts
\* the handler; the handler is not started again.
Signal ==
    /\ Running /\ mpc # "load"
    /\ signals' = OneMore(signals)
    /\ hpc' = IF hpc = "idle" THEN "store" ELSE hpc
    /\ UNCHANGED << fnVars, kinds, cfg, exitState, shuttingDown, mpc, wpc, ibVars, wbVars,
                    units, idx, lkVars, hlog >>

\* ------------------------------------------------- main: the signal handler
\* atomic.StoreInt32(&shuttingDown, 1)
HandlerStore ==
    /\ Running /\ hpc = "store"
    /\ shuttingDown' = 1
    /\ hlog' = Append(hlog, "store")
    /\ hpc' = "shutdown"
    /\ UNCHANGED << fnVars, kinds, cfg, exitState, signals, mpc, wpc, ibVars, wbVars,
                    units, idx, lkVars >>

\* proxy.Shutdown(cfg.Proxy.ShutdownWait): every serving unit stops; the
\* call returns when the drain duration is over.
ProxyShutdown ==
    units' = [u \in UnitIds |-> IF units[u] = "serving" THEN "stopped" ELSE units[u]]

\* A handler that also empties the routing table when it stops the proxy.
HandlerShutdown_ClearsTable ==
    /\ Running /\ hpc = "shutdown"
    /\ ProxyShutdown
    /\ table' = EmptyTable
    /\ hlog' = Append(hlog, "shutdown")
    /\ hpc' = "prof"
    /\ UNCHANGED << fnVars, kinds, cfg, exitState, shuttingDown, signals, mpc, wpc, ibVars,
                    svccfg, mancfg, last, next, t, first, onceDone,
                    failed, nSet, nClose, idx, lkVars >>

\* proxy.Shutdown(cfg.Proxy.ShutdownWait), called by the handler
HandlerShutdown ==
    /\ Running /\ hpc = "shutdown"
    /\ ProxyShutdown
    /\ hlog' = Append(hlog, "shutdown")
    /\ hpc' = "prof"
    /\ UNCHANGED << fnVars, kinds, cfg, exitState, shuttingDown, signals, mpc, wpc, ibVars,
                    wbVars, idx, lkVars >>

\* An initBackend that clears the flag when it has seen it.
InitBackendShutdownCheck_Clears ==
    /\ Running /\ mpc = "ib_shutcheck"
    /\ IF shuttingDown > 0
       THEN ProcessExit("code1") /\ shuttingDown' = 0 /\ UNCHANGED mpc
       ELSE mpc' = "ib_new" /\ UNCHANGED << exitState, shuttingDown >>
    /\ UNCHANGED << fnVars, kinds, cfg, signals, hpc, wpc, ibVars,
                    wbVars, units, idx, lkVars, hlog >>

\* if prof != nil { prof.Stop() }
HandlerProf ==
    /\ Running /\ hpc = "prof"
    /\ hlog' = IF cfg.Prof THEN Append(hlog, "profstop") ELSE hlog
    /\ hpc' = "dereg"
    /\ UNCHANGED << fnVars, kinds, cfg, exitState, shuttingDown, signals, mpc, wpc, ibVars,
                    wbVars, units, idx, lkVars >>

\* A handler that deregisters only a backend whose Register has succeeded.
HandlerDeregister_OnlyRegistered ==
    /\ Running /\ hpc = "dereg"
    /\ IF registryDefault # "registered"
       THEN UNCHANGED << registryDefault, hlog >>
       ELSE /\ hlog' = Append(hlog, "deregister")
            /\ registryDefault' = "deregistered"
    /\ hpc' = "done"
    /\ UNCHANGED << fnVars, kinds, cfg, exitState, shuttingDown, signals, mpc, wpc,
                    err, now, deadline, overhead, attempts, lateAttempts,
                    wbVars, units, idx, lkVars >>

\* if registry.Default == nil { return }; registry.Default.Deregister()
HandlerDeregister ==
    /\ Running /\ hpc = "dereg"
    /\ IF registryDefault = "nil"
       THEN UNCHANGED << registryDefault, hlog >>
       ELSE /\ hlog' = Append(hlog, "deregister")
            /\ registryDefault' = IF registryDefault = "registered"
                                  THEN "deregistered" ELSE registryDefault
    /\ hpc' = "done"
    /\ UNCHANGED << fnVars, kinds, cfg, exitState, shuttingDown, signals, mpc, wpc,
                    err, now, deadline, overhead, attempts, lateAttempts,
                    wbVars, units, idx, lkVars >>

\* ------------------------------------------------------------- initBackend
\* var deadline = time.Now().Add(cfg.Registry.Timeout)
InitBackendEnter ==
    /\ Running /\ mpc = "ib_enter"
    /\ deadline' = now + Timeout
    /\ mpc' = "ib_new"
    /\ UNCHANGED << fnVars, kinds, cfg, exitState, shuttingDown, signals, hpc, wpc,
                    registryDefault, err, now, overhead, attempts, lateAttempts,
                    wbVars, units, idx, lkVars, hlog >>

\* An initBackend that treats an unknown backend kind as a failed attempt.
InitBackendNew_RetriesUnknown ==
    /\ Running /\ mpc = "ib_new"
    /\ \E ok \in BOOLEAN, d \in 0..MaxAttemptTime :
         /\ registryDefault' = IF ok /\ cfg.Backend \in BackendKinds
                               THEN "unregistered" ELSE "nil"
         /\ err' = ~(ok /\ cfg.Backend \in BackendKinds)
         /\ now' = now + d
         /\ overhead' = overhead + d
    /\ attempts' = attempts + 1
    /\ lateAttempts' = lateAttempts + (IF shuttingDown > 0 THEN 1 ELSE 0)
    /\ mpc' = "ib_register"
    /\ UNCHANGED << fnVars, kinds, cfg, exitState, shuttingDown, signals, hpc, wpc, deadline,
                    wbVars, units, idx, lkVars, hlog >>

\* switch cfg.Registry.Backend { ... NewBackend ... default: exit.Fatal }
\* The time the whole attempt (construct and register) takes is charged here.
InitBackendNew ==
    /\ Running /\ mpc = "ib_new"
    /\ IF cfg.Backend \in BackendKinds
       THEN /\ \E ok \in BOOLEAN, d \in 0..MaxAttemptTime :
                 /\ registryDefault' = IF ok THEN "unregistered" ELSE "nil"
                 /\ err' = ~ok
                 /\ now' = now + d
                 /\ overhead' = overhead + d
            /\ attempts' = attempts + 1
            /\ lateAttempts' = lateAttempts + (IF shuttingDown > 0 THEN 1 ELSE 0)
            /\ mpc' = "ib_register"
            /\ UNCHANGED exitState
       ELSE /\ ProcessExit("code1")
            /\ UNCHANGED << mpc, registryDefault, err, now, overhead, attempts,
                            lateAttempts >>
    /\ UNCHANGED << fnVars, kinds, cfg, shuttingDown, signals, hpc, wpc, deadline,
                    wbVars, units, idx, lkVars, hlog >>

\* An initBackend that returns after the attempt, successful or not.
InitBackendRegister_ReturnsOnError ==
    /\ Running /\ mpc = "ib_register"
    /\ registryDefault' = IF err THEN registryDefault ELSE "registered"
    /\ mpc' = "start_admin"
    /\ err' = FALSE /\ now' = 0 /\ deadline' = 0 /\ overhead' = 0
    /\ attempts' = 0 /\ lateAttempts' = 0
    /\ UNCHANGED << fnVars, kinds, cfg, exitState, shuttingDown, signals, hpc, wpc,
                    wbVars, units, idx, lkVars, hlog >>

\* if err == nil { if err = registry.Default.Register(); err == nil { return } }
\* On return the locals of initBackend are gone.
InitBackendRegister ==
    /\ Running /\ mpc = "ib_register"
    /\ \/ /\ ~err
          /\ registryDefault' = "registered"
          /\ mpc' = "start_admin"
          /\ err' = FALSE /\ now' = 0 /\ deadline' = 0 /\ overhead' = 0
          /\ attempts' = 0 /\ lateAttempts' = 0
       \/ /\ err' = TRUE
          /\ mpc' = "ib_deadline"
          /\ UNCHANGED << registryDefault, now, deadline, overhead, attempts,
                          lateAttempts >>
    /\ UNCHANGED << fnVars, kinds, cfg, exitState, shuttingDown, signals, hpc, wpc,
                    wbVars, units, idx, lkVars, hlog >>

\* An initBackend whose deadline check is !time.Now().Before(deadline).
InitBackendDeadline_NotBefore ==
    /\ Running /\ mpc = "ib_deadline"
    /\ IF now >= deadline
       THEN ProcessExit("code1") /\ UNCHANGED mpc
       ELSE mpc' = "ib_sleep" /\ UNCHANGED exitState
    /\ UNCHANGED << fnVars, kinds, cfg, shuttingDown, signals, hpc, wpc, ibVars,
                    wbVars, units, idx, lkVars, hlog >>

\* log warning; if time.Now().After(deadline) { exit.Fatal(...) }
InitBackendDeadline ==
    /\ Running /\ mpc = "ib_deadline"
    /\ IF now > deadline
       THEN ProcessExit("code1") /\ UNCHANGED mpc
       ELSE mpc' = "ib_sleep" /\ UNCHANGED exitState
    /\ UNCHANGED << fnVars, kinds, cfg, shuttingDown, signals, hpc, wpc, ibVars,
                    wbVars, units, idx, lkVars, hlog >>

\* time.Sleep(cfg.Registry.Retry)
InitBackendSleep ==
    /\ Running /\ mpc = "ib_sleep"
    /\ now' = now + cfg.Retry
    /\ mpc' = "ib_shutcheck"
    /\ UNCHANGED << fnVars, kinds, cfg, exitState, shuttingDown, signals, hpc, wpc,
                    registryDefault, err, deadline, overhead, attempts,
                    lateAttempts, wbVars, units, idx, lkVars, hlog >>

\* An initBackend that does not look at shuttingDown.
InitBackendShutdownCheck_NoCheck ==
    /\ Running /\ mpc = "ib_shutcheck"
    /\ mpc' = "ib_new"
    /\ UNCHANGED << fnVars, kinds, cfg, exitState, shuttingDown, signals, hpc, wpc, ibVars,
                    wbVars, units, idx, lkVars, hlog >>

\* An initBackend that leaves with exit.Exit(0) when shutdown was requested.
InitBackendShutdownCheck_ExitsZero ==
    /\ Running /\ mpc = "ib_shutcheck"
    /\ IF shuttingDown > 0
       THEN ProcessExit("code0") /\ UNCHANGED mpc
       ELSE mpc' = "ib_new" /\ UNCHANGED exitState
    /\ UNCHANGED << fnVars, kinds, cfg, shuttingDown, signals, hpc, wpc, ibVars,
                    wbVars, units, idx, lkVars, hlog >>

\* if atomic.LoadInt32(&shuttingDown) > 0 { exit.Exit(1) }
InitBackendShutdownCheck ==
    /\ Running /\ mpc = "ib_shutcheck"
    /\ IF shuttingDown > 0
       THEN ProcessExit("code1") /\ UNCHANGED mpc
       ELSE mpc' = "ib_new" /\ UNCHANGED exitState
    /\ UNCHANGED << fnVars, kinds, cfg, shuttingDown, signals, hpc, wpc, ibVars,
                    wbVars, units, idx, lkVars, hlog >>

\* ----------------------------------------------------------- package route
\* route.SetTable(x): one atomic store of the current-table reference.
RouteSetTable(x) == table' = x

\* route.GetTable(): one atomic load of the current-table reference.
RouteGetTable == table

\* ------------------------------------------------------------ watchBackend
\* A watchBackend that lacks "if next == last { continue }".
WatchReceive_NoCompare(svc, man) ==
    /\ Running /\ wpc = "select"
    /\ svccfg' = svc
    /\ mancfg' = man
    /\ next' = Concat(svc, man)
    /\ t' = NilTable
    /\ wpc' = "compile"
    /\ UNCHANGED << fnVars, kinds, cfg, exitState, shuttingDown, signals, mpc, hpc, ibVars,
                    last, table, first, onceDone, failed, nSet, nClose,
                    units, idx, lkVars, hlog >>

\* A watchBackend that builds next as mancfg + "\n" + svccfg.
WatchReceive_ManualFirst(svc, man) ==
    /\ Running /\ wpc = "select"
    /\ svccfg' = svc
    /\ mancfg' = man
    /\ next' = Concat(man, svc)
    /\ t' = NilTable
    /\ wpc' = IF Concat(man, svc) = last THEN "select" ELSE "compile"
    /\ UNCHANGED << fnVars, kinds, cfg, exitState, shuttingDown, signals, mpc, hpc, ibVars,
                    last, table, first, onceDone, failed, nSet, nClose,
                    units, idx, lkVars, hlog >>

\* select { case svccfg = <-svc: case mancfg = <-man: }
\* next := svccfg + "\n" + mancfg; if next == last { continue }
WatchReceive(svc, man) ==
    /\ Running /\ wpc = "select"
    /\ svccfg' = svc
    /\ mancfg' = man
    /\ next' = Concat(svc, man)
    /\ t' = NilTable
    /\ wpc' = IF Concat(svc, man) = last THEN "select" ELSE "compile"
    /\ UNCHANGED << fnVars, kinds, cfg, exitState, shuttingDown, signals, mpc, hpc, ibVars,
                    last, table, first, onceDone, failed, nSet, nClose,
                    units, idx, lkVars, hlog >>

\* A watchBackend whose discovered-route case also clears the manual text.
WatchServices_ClearsManual == \E v \in Snapshots : WatchReceive(v, << >>)

\* case svccfg = <-svc:
WatchServices == \E v \in Snapshots : WatchReceive(v, mancfg)

\* case mancfg = <-man:
WatchManual == \E v \in Snapshots : WatchReceive(svccfg, v)

\* A watchBackend that remembers the text of a failed compile as accepted.
WatchCompile_RemembersFailed ==
    /\ Running /\ wpc = "compile"
    /\ t' = NewTable(next).t
    /\ IF NewTable(next).err
       THEN wpc' = "select" /\ failed' = TRUE /\ last' = next
       ELSE wpc' = "publish" /\ UNCHANGED << failed, last >>
    /\ UNCHANGED << fnVars, kinds, cfg, exitState, shuttingDown, signals, mpc, hpc, ibVars,
                    svccfg, mancfg, next, table, first, onceDone,
                    nSet, nClose, units, idx, lkVars, hlog >>

\* A watchBackend that lacks the "continue" of the error branch and hands
\* the result of a failed compile to SetTable.
WatchCompile_NoErrCheck ==
    /\ Running /\ wpc = "compile"
    /\ t' = NewTable(next).t
    /\ wpc' = "publish"
    /\ failed' = (failed \/ NewTable(next).err)
    /\ UNCHANGED << fnVars, kinds, cfg, exitState, shuttingDown, signals, mpc, hpc, ibVars,
                    svccfg, mancfg, last, next, table, first, onceDone,
                    nSet, nClose, units, idx, lkVars, hlog >>

\* A watchBackend that fires the readiness gate also when the compile fails.
WatchCompile_FiresGate ==
    /\ Running /\ wpc = "compile"
    /\ t' = NewTable(next).t
    /\ IF NewTable(next).err
       THEN wpc' = "select" /\ failed' = TRUE /\ first' = "closed"
       ELSE wpc' = "publish" /\ UNCHANGED << failed, first >>
    /\ UNCHANGED << fnVars, kinds, cfg, exitState, shuttingDown, signals, mpc, hpc, ibVars,
                    svccfg, mancfg, last, next, table, onceDone,
                    nSet, nClose, units, idx, lkVars, hlog >>

\* t, err := route.NewTable(next); if err != nil { log warning; continue }
WatchCompile ==
    /\ Running /\ wpc = "compile"
    /\ t' = NewTable(next).t
    /\ IF NewTable(next).err
       THEN wpc' = "select" /\ failed' = TRUE
       ELSE wpc' = "publish" /\ UNCHANGED failed
    /\ UNCHANGED << fnVars, kinds, cfg, exitState, shuttingDown, signals, mpc, hpc, ibVars,
                    svccfg, mancfg, last, next, table, first, onceDone,
                    nSet, nClose, units, idx, lkVars, hlog >>

\* A watchBackend that publishes its first table only.
WatchSetTable_OnlyFirst ==
    /\ Running /\ wpc = "publish"
    /\ IF nSet = "none" THEN RouteSetTable(t) ELSE UNCHANGED table
    /\ nSet' = OneMore(nSet)
    /\ wpc' = "log"
    /\ UNCHANGED << fnVars, kinds, cfg, exitState, shuttingDown, signals, mpc, hpc, ibVars,
                    svccfg, mancfg, last, next, t, first, onceDone,
                    failed, nClose, units, idx, lkVars, hlog >>

\* route.SetTable(t)
WatchSetTable ==
    /\ Running /\ wpc = "publish"
    /\ RouteSetTable(t)
    /\ nSet' = OneMore(nSet)
    /\ wpc' = "log"
    /\ UNCHANGED << fnVars, kinds, cfg, exitState, shuttingDown, signals, mpc, hpc, ibVars,
                    svccfg, mancfg, last, next, t, first, onceDone,
                    failed, nClose, units, idx, lkVars, hlog >>

\* A watchBackend that closes first without the sync.Once.
WatchLogRoutes_NoOnce ==
    /\ Running /\ wpc = "log"
    /\ last' = next
    /\ nClose' = nClose + 1
    /\ IF first = "closed"
       THEN ProcessExit("panic") /\ UNCHANGED first
       ELSE first' = "closed" /\ UNCHANGED exitState
    /\ wpc' = "select"
    /\ UNCHANGED << fnVars, kinds, cfg, shuttingDown, signals, mpc, hpc, ibVars,
                    svccfg, mancfg, next, t, table, failed, nSet, onceDone,
                    units, idx, lkVars, hlog >>

\* A watchBackend that lacks "last = next".
WatchLogRoutes_KeepsLast ==
    /\ Running /\ wpc = "log"
    /\ IF onceDone
       THEN UNCHANGED << first, nClose, onceDone, exitState >>
       ELSE /\ onceDone' = TRUE
            /\ nClose' = nClose + 1
            /\ IF first = "closed"
               THEN ProcessExit("panic") /\ UNCHANGED first
               ELSE first' = "closed" /\ UNCHANGED exitState
    /\ wpc' = "select"
    /\ UNCHANGED << fnVars, kinds, cfg, shuttingDown, signals, mpc, hpc, ibVars,
                    svccfg, mancfg, last, next, t, table, failed, nSet,
                    units, idx, lkVars, hlog >>

\* logRoutes(t, last, next, cfg.Log.RoutesFormat); last = next
\* once.Do(func() { close(first) }); closing a closed channel panics.
WatchLogRoutes ==
    /\ Running /\ wpc = "log"
    /\ last' = next
    /\ IF onceDone
       THEN UNCHANGED << first, nClose, onceDone, exitState >>
       ELSE /\ onceDone' = TRUE
            /\ nClose' = nClose + 1
            /\ IF first = "closed"
               THEN ProcessExit("panic") /\ UNCHANGED first
               ELSE first' = "closed" /\ UNCHANGED exitState
    /\ wpc' = "select"
    /\ UNCHANGED << fnVars, kinds, cfg, shuttingDown, signals, mpc, hpc, ibVars,
                    svccfg, mancfg, next, t, table, failed, nSet,
                    units, idx, lkVars, hlog >>

\* ------------------------------------------------------------------- main
\* the three kinds of value config.Load returns: (cfg, nil), (nil, err), (nil, nil)
LoadReturns == { "cfg", "err", "version" }

\* cfg, err := config.Load(os.Args, os.Environ())
\* if err != nil { exit.Fatalf(...) }; if cfg == nil { fmt.Println(version); return }
\* ...; exit.Listen(func(s os.Signal) { ... })
MainLoad ==
    /\ Running /\ mpc = "load"
    /\ \E r \in LoadReturns :
         CASE r = "err"     -> ProcessExit("code1") /\ UNCHANGED mpc
           [] r = "version" -> ProcessExit("code0") /\ mpc' = "version"
           [] r = "cfg"     -> mpc' = "ib_enter" /\ UNCHANGED exitState
    /\ UNCHANGED << fnVars, kinds, cfg, shuttingDown, signals, hpc, wpc, ibVars,
                    wbVars, units, idx, lkVars, hlog >>

\* startAdmin(cfg): go func() { ... srv.ListenAndServe(l, tlscfg) ... }()
StartAdmin ==
    /\ Running /\ mpc = "start_admin"
    /\ units' = [units EXCEPT ![Admin] = "spawned"]
    /\ kinds' = [kinds EXCEPT ![Admin] = "admin"]
    /\ mpc' = "go_watch"
    /\ UNCHANGED << fnVars, cfg, exitState, shuttingDown, signals, hpc, wpc, ibVars,
                    wbVars, idx, lkVars, hlog >>

\* first := make(chan bool); go watchBackend(cfg, first)
GoWatchBackend ==
    /\ Running /\ mpc = "go_watch"
    /\ wpc' = "select"
    /\ mpc' = "wait_first"
    /\ UNCHANGED << fnVars, kinds, cfg, exitState, shuttingDown, signals, hpc, ibVars,
                    wbVars, units, idx, lkVars, hlog >>

\* A main that does not wait for the first routing table.
WaitFirst_NoWait ==
    /\ Running /\ mpc = "wait_first"
    /\ mpc' = "start_servers"
    /\ UNCHANGED << fnVars, kinds, cfg, exitState, shuttingDown, signals, hpc, wpc, ibVars,
                    wbVars, units, idx, lkVars, hlog >>

\* <-first
WaitFirst ==
    /\ Running /\ mpc = "wait_first"
    /\ first = "closed"
    /\ mpc' = "start_servers"
    /\ UNCHANGED << fnVars, kinds, cfg, exitState, shuttingDown, signals, hpc, wpc, ibVars,
                    wbVars, units, idx, lkVars, hlog >>

\* the certificate sources cert.NewSource / cert.TLSConfig cannot build
BrokenCertSources == { "broken" }

\* makeTLSConfig(l): nil without a certificate source, else the TLS
\* configuration of the source, or an error
MakeTLSConfig(l) ==
    IF l.CertSource = "" THEN [tlscfg |-> "nil", err |-> FALSE]
    ELSE IF l.CertSource \in BrokenCertSources THEN [tlscfg |-> "nil", err |-> TRUE]
    ELSE [tlscfg |-> l.CertSource, err |-> FALSE]

\* switch l.Proto: the proxy the goroutine serves, or the default branch
ServerKind(proto) ==
    CASE proto \in { "http", "https" } -> "http"
      [] proto = "tcp"                 -> "tcp"
      [] proto = "tcp+sni"             -> "sni"
      [] OTHER                         -> "fatal"

\* A startServers that skips a descriptor with an unknown protocol.
StartServers_SkipsInvalid ==
    /\ Running /\ mpc = "start_servers"
    /\ IF idx > Len(cfg.Listen)
       THEN mpc' = "exit_wait" /\ UNCHANGED << units, kinds, idx, exitState >>
       ELSE LET l == cfg.Listen[idx]
            IN  IF MakeTLSConfig(l).err
                THEN ProcessExit("code1") /\ UNCHANGED << mpc, units, kinds, idx >>
                ELSE IF ServerKind(l.Proto) = "fatal"
                THEN idx' = idx + 1 /\ UNCHANGED << mpc, units, kinds, exitState >>
                ELSE /\ units' = [units EXCEPT ![idx] = "spawned"]
                     /\ kinds' = [kinds EXCEPT ![idx] = ServerKind(l.Proto)]
                     /\ idx' = idx + 1
                     /\ UNCHANGED << mpc, exitState >>
    /\ UNCHANGED << fnVars, cfg, shuttingDown, signals, hpc, wpc, ibVars,
                    wbVars, lkVars, hlog >>

\* startServers: one iteration of for _, l := range cfg.Listen:
\* makeTLSConfig(l), exit.Fatal on its error; switch l.Proto { go func ... }
StartServers ==
    /\ Running /\ mpc = "start_servers"
    /\ IF idx > Len(cfg.Listen)
       THEN mpc' = "exit_wait" /\ UNCHANGED << units, kinds, idx, exitState >>
       ELSE LET l == cfg.Listen[idx]
            IN  IF MakeTLSConfig(l).err \/ ServerKind(l.Proto) = "fatal"
                THEN ProcessExit("code1") /\ UNCHANGED << mpc, units, kinds, idx >>
                ELSE /\ units' = [units EXCEPT ![idx] = "spawned"]
                     /\ kinds' = [kinds EXCEPT ![idx] = ServerKind(l.Proto)]
                     /\ idx' = idx + 1
                     /\ UNCHANGED << mpc, exitState >>
    /\ UNCHANGED << fnVars, cfg, shuttingDown, signals, hpc, wpc, ibVars,
                    wbVars, lkVars, hlog >>

\* exit.Wait() returns when the handler has run; main logs "Down" and returns.
ExitWait ==
    /\ Running /\ mpc = "exit_wait"
    /\ hpc = "done"
    /\ mpc' = "done"
    /\ ProcessExit("code0")
    /\ UNCHANGED << fnVars, kinds, cfg, shuttingDown, signals, hpc, wpc, ibVars,
                    wbVars, units, idx, lkVars, hlog >>

\* ---------------------------------------------------------- listener units
\* A listener goroutine that only logs the error of ListenAndServe and ends.
UnitListen_LogsError(u) ==
    /\ Running /\ units[u] = "spawned"
    /\ \/ units' = [units EXCEPT ![u] = "serving"]
       \/ units' = [units EXCEPT ![u] = "none"]
    /\ UNCHANGED << fnVars, kinds, cfg, exitState, shuttingDown, signals, mpc, hpc, wpc,
                    ibVars, wbVars, idx, lkVars, hlog >>

\* ListenAndServe of a started goroutine: it binds and serves, or the bind
\* fails and exit.Fatal ends the process.
UnitListen(u) ==
    /\ Running /\ units[u] = "spawned"
    /\ \/ units' = [units EXCEPT ![u] = "serving"] /\ UNCHANGED exitState
       \/ ProcessExit("code1") /\ UNCHANGED units
    /\ UNCHANGED << fnVars, kinds, cfg, shuttingDown, signals, mpc, hpc, wpc, ibVars,
                    wbVars, idx, lkVars, hlog >>

\* the function a serving unit resolves with: the Lookup closure of
\* newHTTPProxy for an HTTP(S) listener, the closure of lookupHostFn for a
\* TCP or TCP+SNI listener
LookupFn(kind) == IF kind = "http" THEN "lookup" ELSE "lookuphost"
\* a lookup has read the current table and not yet returned
InLookup == lkpc \in { "lookup", "lookuphost" }
\* what the function returns for the target t ("none" is t == nil):
\* Lookup returns t itself, lookupHostFn returns "" or t.URL.Host
LookupReturn(fn, target) ==
    IF target # "none" THEN target
    ELSE IF fn = "lookup" THEN "nil" ELSE ""

\* A listener that resolves against a table it captured earlier.
LookupGetTable_StartSnapshot(u, host) ==
    /\ Running /\ u # Admin /\ units[u] = "serving"
    /\ lkpc = "idle" /\ nLookups < MaxLookups
    /\ nLookups' = nLookups + 1
    /\ \E s \in { EmptyTable, <<"a">>, <<"a", "a">> } : lksnap' = s
    /\ lkhost' = host
    /\ lkpc' = LookupFn(kinds[u])
    /\ UNCHANGED << fnVars, kinds, cfg, exitState, shuttingDown, signals, mpc, hpc, wpc,
                    ibVars, wbVars, units, idx, lkres, notFound, hlog >>

\* Lookup / lookupHostFn, first half: route.GetTable()
LookupGetTable(u, host) ==
    /\ Running /\ u # Admin /\ units[u] = "serving"
    /\ lkpc = "idle" /\ nLookups < MaxLookups
    /\ nLookups' = nLookups + 1
    /\ lksnap' = RouteGetTable
    /\ lkhost' = host
    /\ lkpc' = LookupFn(kinds[u])
    /\ UNCHANGED << fnVars, kinds, cfg, exitState, shuttingDown, signals, mpc, hpc, wpc,
                    ibVars, wbVars, units, idx, lkres, notFound, hlog >>

\* A lookup that counts a miss but hands on the host it was asked for.
LookupTarget_ForwardsOnMiss ==
    /\ Running /\ InLookup
    /\ lkres' = lkhost
    /\ notFound' = notFound + (IF TableLookup(lksnap, lkhost) = "none" THEN 1 ELSE 0)
    /\ lkpc' = "idle"
    /\ lksnap' = EmptyTable /\ lkhost' = "a"
    /\ UNCHANGED << fnVars, kinds, cfg, exitState, shuttingDown, signals, mpc, hpc, wpc,
                    ibVars, wbVars, units, idx, nLookups, hlog >>

\* second half: t := ... .Lookup(...) / .LookupHost(...)
\* if t == nil { notFound.Inc(1); ... }; return t / "" / t.URL.Host
LookupTarget ==
    /\ Running /\ InLookup
    /\ lkres' = LookupReturn(lkpc, TableLookup(lksnap, lkhost))
    /\ notFound' = notFound + (IF TableLookup(lksnap, lkhost) = "none" THEN 1 ELSE 0)
    /\ lkpc' = "idle"
    /\ lksnap' = EmptyTable /\ lkhost' = "a"
    /\ UNCHANGED << fnVars, kinds, cfg, exitState, shuttingDown, signals, mpc, hpc, wpc,
                    ibVars, wbVars, units, idx, nLookups, hlog >>

Next ==
    \/ MainLoad
    \/ Signal
    \/ HandlerStore
    \/ HandlerShutdown
    \/ HandlerProf
    \/ HandlerDeregister
    \/ InitBackendEnter
    \/ InitBackendNew
    \/ InitBackendRegister
    \/ InitBackendDeadline
    \/ InitBackendSleep
    \/ InitBackendShutdownCheck
    \/ StartAdmin
    \/ GoWatchBackend
    \/ WaitFirst
    \/ StartServers
    \/ ExitWait
    \/ WatchServices
    \/ WatchManual
    \/ WatchCompile
    \/ WatchSetTable
    \/ WatchLogRoutes
    \/ \E u \in UnitIds : UnitListen(u)
    \/ \E u \in UnitIds, host \in Hosts : LookupGetTable(u, host)
    \/ LookupTarget

Spec == Init /\ [][Next]_vars

\* The registration retry loop next to the shutdown handler, under every
\* timing configuration, up to the return of initBackend.
InitRetry == cfg \in RetryConfigs /\ InitState /\ NoCalls

NextRetry ==
    \/ MainLoad
    \/ Signal
    \/ HandlerStore
    \/ HandlerShutdown
    \/ HandlerProf
    \/ HandlerDeregister
    \/ InitBackendEnter
    \/ InitBackendNew
    \/ InitBackendRegister
    \/ InitBackendDeadline
    \/ InitBackendSleep
    \/ InitBackendShutdownCheck

SpecRetry == InitRetry /\ [][NextRetry]_vars

\* The hot-reload loop on its own: the state in which main has started
\* watchBackend and waits for the first table.
InitWatch ==
    /\ cfg \in { c \in Configs : c.Backend = "file" }
    /\ exitState = "running"
    /\ shuttingDown = 0
    /\ signals = "none"
    /\ mpc = "wait_first"
    /\ hpc = "idle"
    /\ wpc = "select"
    /\ registryDefault = "registered"
    /\ err = FALSE
    /\ now = 0 /\ deadline = 0 /\ overhead = 0
    /\ attempts = 0 /\ lateAttempts = 0
    /\ svccfg = <<>> /\ mancfg = <<>> /\ last = <<>> /\ next = <<>>
    /\ t = NilTable
    /\ table = EmptyTable
    /\ first = "open"
    /\ onceDone = FALSE
    /\ failed = FALSE /\ nSet = "none" /\ nClose = 0
    /\ units = [u \in UnitIds |-> IF u = Admin THEN "spawned" ELSE "none"]
    /\ kinds = [u \in UnitIds |-> IF u = Admin THEN "admin" ELSE "none"]
    /\ idx = 1
    /\ lkpc = "idle" /\ lksnap = EmptyTable /\ lkhost = "a" /\ lkres = "none"
    /\ nLookups = 0 /\ notFound = 0
    /\ hlog = <<>>
    /\ NoCalls

NextWatch ==
    \/ WatchServices
    \/ WatchManual
    \/ WatchCompile
    \/ WatchSetTable
    \/ WatchLogRoutes

SpecWatch == InitWatch /\ [][NextWatch]_vars

\* The wait for the first table next to the shutdown handler: main has
\* started watchBackend and is blocked in <-first; lookups are left out.
NextGate ==
    \/ Signal
    \/ HandlerStore
    \/ HandlerShutdown
    \/ HandlerProf
    \/ HandlerDeregister
    \/ WaitFirst
    \/ StartServers
    \/ ExitWait
    \/ WatchServices
    \/ WatchManual
    \/ WatchCompile
    \/ WatchSetTable
    \/ WatchLogRoutes
    \/ \E u \in UnitIds : UnitListen(u)

\* Every goroutine that can take a step takes one: main, the handler, the
\* listener goroutines, and watchBackend once it has received a value. The
\* signals and the notifications of the two sources are up to the
\* environment.
GateFairness ==
    /\ WF_vars(HandlerStore) /\ WF_vars(HandlerShutdown)
    /\ WF_vars(HandlerProf) /\ WF_vars(HandlerDeregister)
    /\ WF_vars(WaitFirst) /\ WF_vars(StartServers) /\ WF_vars(ExitWait)
    /\ WF_vars(WatchCompile) /\ WF_vars(WatchSetTable) /\ WF_vars(WatchLogRoutes)
    /\ \A u \in UnitIds : WF_vars(UnitListen(u))

SpecGate == InitWatch /\ [][NextGate]_vars /\ GateFairness

\* ============================================================== diff logger
MaxText == 3            \* longest directive text handed to logRoutes
LogChars == { "a", "b", "c", NL }

RECURSIVE SeqsUpTo(_, _)
\* the sequences over S of length 0..n
SeqsUpTo(S, n) ==
    IF n = 0 THEN { << >> }
    ELSE LET shorter == SeqsUpTo(S, n - 1)
         IN  shorter \cup { Append(q, c) : q \in { x \in shorter : Len(x) = n - 1 }, c \in S }

\* the texts watchBackend builds: svccfg + "\n" + mancfg
LogTexts == { x \in SeqsUpTo(LogChars, MaxText) : \E i \in DOMAIN x : x[i] = NL }

\* strings.HasPrefix, strings.HasSuffix
HasPrefix(s, p) == Len(p) <= Len(s) /\ SubSeq(s, 1, Len(p)) = p
HasSuffix(s, p) == Len(p) <= Len(s) /\ SubSeq(s, Len(s) - Len(p) + 1, Len(s)) = p

\* unicode.IsSpace on the characters of a text
IsSpace(c) == c \in { " ", NL, "\t", "\r" }

RECURSIVE TrimLeft(_)
TrimLeft(s) == IF s # << >> /\ IsSpace(Head(s)) THEN TrimLeft(Tail(s)) ELSE s

RECURSIVE TrimRight(_)
TrimRight(s) ==
    IF s # << >> /\ IsSpace(s[Len(s)]) THEN TrimRight(SubSeq(s, 1, Len(s) - 1)) ELSE s

\* strings.TrimSpace
TrimSpace(s) == TrimRight(TrimLeft(s))

RECURSIVE ReplaceNL(_, _)
\* strings.Replace(s, "\n", new, -1)
ReplaceNL(s, new) ==
    IF s = << >> THEN << >>
    ELSE (IF Head(s) = NL THEN new ELSE << Head(s) >>) \o ReplaceNL(Tail(s), new)

\* ---- dmp.DiffMain of the diffmatchpatch library, as logRoutes calls it
Diff(type, text) == [Type |-> type, Text |-> text]

RECURSIVE CommonPrefixLength(_, _)
CommonPrefixLength(a, b) ==
    IF a # << >> /\ b # << >> /\ Head(a) = Head(b)
    THEN 1 + CommonPrefixLength(Tail(a), Tail(b)) ELSE 0

RECURSIVE CommonSuffixLength(_, _)
CommonSuffixLength(a, b) ==
    IF a # << >> /\ b # << >> /\ a[Len(a)] = b[Len(b)]
    THEN 1 + CommonSuffixLength(SubSeq(a, 1, Len(a) - 1), SubSeq(b, 1, Len(b) - 1))
    ELSE 0

\* the first position of short in long, 0 if there is none
Index(long, short) ==
    LET at == { i \in 1..(Len(long) - Len(short) + 1) :
                  SubSeq(long, i, i + Len(short) - 1) = short }
    IN  IF at = { } THEN 0 ELSE CHOOSE i \in at : \A j \in at : i <= j

\* the two texts without their common prefix and their common suffix
Middle(text1, text2) ==
    LET n  == CommonPrefixLength(text1, text2)
        a  == SubSeq(text1, n + 1, Len(text1))
        b  == SubSeq(text2, n + 1, Len(text2))
        m  == CommonSuffixLength(a, b)
    IN  [ prefix |-> SubSeq(text1, 1, n),
          suffix |-> SubSeq(a, Len(a) - m + 1, Len(a)),
          text1  |-> SubSeq(a, 1, Len(a) - m),
          text2  |-> SubSeq(b, 1, Len(b) - m) ]

Characters(s) == { s[i] : i \in DOMAIN s }

\* diffCompute for two texts of which one is empty, one contains the other,
\* one is a single character or the two have no character in common (the
\* half-match and the bisection then find nothing to split at)
DiffCompute(text1, text2) ==
    IF text1 = << >> THEN << Diff("Insert", text2) >>
    ELSE IF text2 = << >> THEN << Diff("Delete", text1) >>
    ELSE LET long  == IF Len(text1) > Len(text2) THEN text1 ELSE text2
             short == IF Len(text1) > Len(text2) THEN text2 ELSE text1
             i     == Index(long, short)
             op    == IF Len(text1) > Len(text2) THEN "Delete" ELSE "Insert"
         IN  IF i # 0
             THEN << Diff(op, SubSeq(long, 1, i - 1)),
                     Diff("Equal", short),
                     Diff(op, SubSeq(long, i + Len(short), Len(long))) >>
             ELSE << Diff("Delete", text1), Diff("Insert", text2) >>

\* the pairs of texts DiffCompute is defined for
DiffSimple(text1, text2) ==
    LET m == Middle(text1, text2)
        long  == IF Len(m.text1) > Len(m.text2) THEN m.text1 ELSE m.text2
        short == IF Len(m.text1) > Len(m.text2) THEN m.text2 ELSE m.text1
    IN  \/ Len(short) <= 1
        \/ Index(long, short) # 0
        \/ Characters(m.text1) \cap Characters(m.text2) = { }

RECURSIVE MergeAdjacent(_)
\* DiffCleanupMerge, first pass: neighbours of one type become one diff
MergeAdjacent(ds) ==
    IF Len(ds) < 2 THEN ds
    ELSE IF ds[1].Type = ds[2].Type
         THEN MergeAdjacent(<< Diff(ds[1].Type, ds[1].Text \o ds[2].Text) >>
                            \o Tail(Tail(ds)))
         ELSE << ds[1] >> \o MergeAdjacent(Tail(ds))

\* ds without its i-th element
Splice(ds, i) == SubSeq(ds, 1, i - 1) \o SubSeq(ds, i + 1, Len(ds))

RECURSIVE ShiftEdits(_, _)
\* DiffCleanupMerge, second pass: a single edit between two equalities is
\* shifted over the equality it ends with or begins with
ShiftEdits(ds, p) ==
    IF p >= Len(ds) THEN ds
    ELSE IF ds[p - 1].Type = "Equal" /\ ds[p + 1].Type = "Equal"
         THEN LET prev == ds[p - 1].Text
                  edit == ds[p].Text
                  nxt  == ds[p + 1].Text
              IN  IF HasSuffix(edit, prev)
                  THEN ShiftEdits(
                         Splice([ds EXCEPT
                                   ![p].Text = prev \o SubSeq(edit, 1, Len(edit) - Len(prev)),
                                   ![p + 1].Text = prev \o nxt], p - 1),
                         p + 1)
                  ELSE IF HasPrefix(edit, nxt)
                  THEN ShiftEdits(
                         Splice([ds EXCEPT
                                   ![p - 1].Text = prev \o nxt,
                                   ![p].Text = SubSeq(edit, Len(nxt) + 1, Len(edit)) \o nxt],
                                p + 1),
                         p + 1)
                  ELSE ShiftEdits(ds, p + 1)
         ELSE ShiftEdits(ds, p + 1)

RECURSIVE DiffCleanupMerge(_)
\* if shifts were made, the diff is merged and swept again
DiffCleanupMerge(ds) ==
    LET merged  == MergeAdjacent(ds)
        shifted == ShiftEdits(merged, 2)
    IN  IF shifted # merged THEN DiffCleanupMerge(shifted) ELSE merged

\* dmp.New().DiffMain(text1, text2, true)
DiffMain(text1, text2) ==
    IF text1 = text2
    THEN (IF text1 # << >> THEN << Diff("Equal", text1) >> ELSE << >>)
    ELSE LET m == Middle(text1, text2)
         IN  DiffCleanupMerge(
               (IF m.prefix # << >> THEN << Diff("Equal", m.prefix) >> ELSE << >>)
               \o DiffCompute(m.text1, m.text2)
               \o (IF m.suffix # << >> THEN << Diff("Equal", m.suffix) >> ELSE << >>))

\* ---- logRoutes
\* the prefixes fmtDiff writes: "- " and "+ "
Minus == << "-", " " >>
Plus == << "+", " " >>

\* A fmtDiff that does not skip the diffs that are blank after TrimSpace.
FmtOne_KeepsBlank(d) ==
    LET tt == TrimSpace(d.Text)
    IN  CASE d.Type = "Delete" -> Minus \o ReplaceNL(tt, << NL >> \o Minus)
          [] d.Type = "Insert" -> Plus \o ReplaceNL(tt, << NL >> \o Plus)
          [] OTHER -> << >>

\* what fmtDiff writes for one diff
FmtOne(d) ==
    LET tt == TrimSpace(d.Text)
    IN  IF tt = << >> THEN << >>
        ELSE CASE d.Type = "Delete" -> Minus \o ReplaceNL(tt, << NL >> \o Minus)
               [] d.Type = "Insert" -> Plus \o ReplaceNL(tt, << NL >> \o Plus)
               [] OTHER -> << >>

RECURSIVE fmtDiff(_)
\* fmtDiff := func(diffs []dmp.Diff) string
fmtDiff(diffs) ==
    IF diffs = << >> THEN << >> ELSE FmtOne(Head(diffs)) \o fmtDiff(Tail(diffs))

defFormat == "delta"

\* Table.Dump(): the routes of the table, one per line
Dump(tbl) == [i \in 1..(2 * Len(tbl)) |-> IF i % 2 = 1 THEN tbl[(i + 1) \div 2] ELSE NL]

\* log.Printf of logRoutes
LogLine(level, msg, arg) == [level |-> level, msg |-> msg, arg |-> arg]

\* the log lines of case "delta"
DeltaLines(lastText, nextText) ==
    LET delta == fmtDiff(DiffMain(lastText, nextText))
    IN  IF delta # << >> THEN << LogLine("INFO", "Config updates", delta) >> ELSE << >>

\* the values of -log.routes.format and -proxy.log.routes; config.Load takes
\* any string
FormatValues == { "detail", "delta", "all", "foobar", "" }

\* load: f.StringVar(&cfg.Log.RoutesFormat, "log.routes.format", ...);
\* if proxyLogRoutes != "" { cfg.Log.RoutesFormat = proxyLogRoutes }
LoadRoutesFormat(routesFormat, proxyLogRoutes) ==
    IF proxyLogRoutes # "" THEN proxyLogRoutes ELSE routesFormat

\* the calls logRoutes(t, last, next, cfg.Log.RoutesFormat) of watchBackend:
\* next is compiled and differs from last, last is empty or an earlier next
LogCalls ==
    { [ pc |-> "call", t |-> NewTable(x[2]).t, last |-> x[1], next |-> x[2],
        format |-> LoadRoutesFormat(f, d), depth |-> 0, log |-> << >> ] :
        x \in { y \in ({ << >> } \cup LogTexts) \X LogTexts :
                  y[1] # y[2] /\ DiffSimple(y[1], y[2]) },
        f \in FormatValues, d \in { "", "foobar" } }

InitLog ==
    /\ cfg \in { c \in Configs : c.Backend = "file" /\ ~c.Prof }
    /\ InitState
    /\ lr \in LogCalls
    /\ ld = NoCall /\ pl = NoCall

\* A logRoutes whose default case only warns.
LogRoutes_WarnsOnly ==
    /\ lr.pc = "call"
    /\ lr' =
         CASE lr.format = "detail" ->
                [lr EXCEPT !.pc = "return",
                           !.log = @ \o << LogLine("INFO", "Updated config to", Dump(lr.t)) >>]
           [] lr.format = "delta" ->
                [lr EXCEPT !.pc = "return",
                           !.log = @ \o DeltaLines(lr.last, lr.next)]
           [] lr.format = "all" ->
                [lr EXCEPT !.pc = "return",
                           !.log = @ \o << LogLine("INFO", "Updated config to", lr.next) >>]
           [] OTHER ->
                [lr EXCEPT !.pc = "return",
                           !.log = @ \o << LogLine("WARN", "Invalid route format",
                                                   << lr.format, defFormat >>) >>]
    /\ UNCHANGED << mainVars, ld, pl >>

\* logRoutes(t, last, next, format): one call; the default case logs the
\* warning and calls logRoutes(t, last, next, defFormat)
LogRoutes ==
    /\ lr.pc = "call"
    /\ lr' =
         CASE lr.format = "detail" ->
                [lr EXCEPT !.pc = "return",
                           !.log = @ \o << LogLine("INFO", "Updated config to", Dump(lr.t)) >>]
           [] lr.format = "delta" ->
                [lr EXCEPT !.pc = "return",
                           !.log = @ \o DeltaLines(lr.last, lr.next)]
           [] lr.format = "all" ->
                [lr EXCEPT !.pc = "return",
                           !.log = @ \o << LogLine("INFO", "Updated config to", lr.next) >>]
           [] OTHER ->
                [lr EXCEPT !.format = defFormat,
                           !.depth = @ + 1,
                           !.log = @ \o << LogLine("WARN", "Invalid route format",
                                                   << lr.format, defFormat >>) >>]
    /\ UNCHANGED << mainVars, ld, pl >>

NextLog == LogRoutes

SpecLog == InitLog /\ [][NextLog]_vars

\* ============================================================= config.Load
MaxArgs == 3            \* command-line arguments after the executable name

\* command-line arguments, as texts
ArgExec == << "f" >>
ArgV == << "-", "v" >>
ArgVersion == << "-", "-", "v", "e", "r", "s", "i", "o", "n" >>
ArgCfg == << "-", "c", "f", "g" >>
ArgCfg2 == << "-", "-", "c", "f", "g" >>
ArgCfgEq == << "-", "c", "f", "g", "=" >>
ArgCfgEqPath == << "-", "c", "f", "g", "=", "p" >>
ArgCfg2EqQuotes == << "-", "-", "c", "f", "g", "=", "'", "'" >>
ArgCfgEqQuoted == << "-", "c", "f", "g", "=", "'", "p", "'" >>
ArgCfg2EqDQuoted == << "-", "-", "c", "f", "g", "=", "\"", "p", "\"" >>
ArgTestV == << "-", "t", "e", "s", "t", ".", "v" >>
ArgOther == << "-", "a" >>
ArgWords == { ArgV, ArgVersion, ArgCfg, ArgCfg2, ArgCfgEq, ArgCfgEqPath,
              ArgCfg2EqQuotes, ArgCfgEqQuoted, ArgCfg2EqDQuoted, ArgTestV, ArgOther }

\* os.Args
ArgLists == { << ArgExec >> \o r : r \in SeqsUpTo(ArgWords, MaxArgs) }

PrefixCfgEq == << "-", "c", "f", "g", "=" >>
PrefixCfg2Eq == << "-", "-", "c", "f", "g", "=" >>
PrefixTest == << "-", "t", "e", "s", "t", "." >>

\* A strings.Trim that removes nothing.
Trim_KeepsQuotes(s, c) == s

\* strings.Trim(s, cut) for a one-character cut set
Trim(s, c) ==
    LET keep == { i \in DOMAIN s : s[i] # c }
    IN  IF keep = { } THEN << >>
        ELSE SubSeq(s, CHOOSE i \in keep : \A j \in keep : i <= j,
                       CHOOSE i \in keep : \A j \in keep : i >= j)

\* A parse that knows the short version flag only.
IsVersionFlag_ShortOnly(arg) == arg = ArgV

\* case arg == "-v" || arg == "--version"
IsVersionFlag(arg) == arg = ArgV \/ arg = ArgVersion

\* the values parse returns
ParseResult(cmdline, path, version, e) ==
    [cmdline |-> cmdline, path |-> path, version |-> version, err |-> e]
ParseInvalidConfig == ParseResult(<< >>, << >>, FALSE, "errInvalidConfig")

RECURSIVE ParseFrom(_, _, _, _)
\* the loop of parse, from argument i on
ParseFrom(args, i, cmdline, path) ==
    IF i > Len(args) THEN ParseResult(cmdline, path, FALSE, "nil")
    ELSE LET arg == args[i]
         IN  IF IsVersionFlag(arg)
             THEN ParseResult(<< >>, << >>, TRUE, "nil")
             ELSE IF arg = ArgCfg \/ arg = ArgCfg2
             THEN (IF i >= Len(args) THEN ParseInvalidConfig
                   ELSE ParseFrom(args, i + 2, cmdline, args[i + 1]))
             ELSE IF HasPrefix(arg, PrefixCfgEq) \/ HasPrefix(arg, PrefixCfg2Eq)
             THEN LET raw == IF HasPrefix(arg, PrefixCfgEq)
                             THEN SubSeq(arg, Len(PrefixCfgEq) + 1, Len(arg))
                             ELSE SubSeq(arg, Len(PrefixCfg2Eq) + 1, Len(arg))
                      p   == IF raw = << >> THEN raw
                             ELSE IF raw[1] = "'" THEN Trim(raw, "'")
                             ELSE IF raw[1] = "\"" THEN Trim(raw, "\"")
                             ELSE raw
                  IN  IF p = << >> THEN ParseInvalidConfig
                      ELSE ParseFrom(args, i + 1, cmdline, p)
             ELSE IF HasPrefix(arg, PrefixTest)
             THEN ParseFrom(args, i + 1, cmdline, path)
             ELSE ParseFrom(args, i + 1, Append(cmdline, arg), path)

\* parse(args): cmdline = args[:1], then the arguments from the second on
Parse(args) == ParseFrom(args, 2, << args[1] >>, << >>)

\* the values Load returns
LoadRet(c, e) == [cfg |-> c, err |-> e]

InitLoad ==
    /\ cfg \in { c \in Configs : c.Backend = "file" /\ ~c.Prof }
    /\ InitState
    /\ ld \in { [pc |-> "parse", args |-> a] : a \in ArgLists }
    /\ lr = NoCall /\ pl = NoCall

\* cmdline, path, version, err := parse(args); switch { case err != nil:
\* return nil, err; case version: return nil, nil; case path != "": ... }
LoadParse ==
    /\ ld.pc = "parse"
    /\ LET r == Parse(ld.args)
       IN  ld' = IF r.err # "nil"
                 THEN [pc |-> "return", args |-> ld.args, ret |-> LoadRet("nil", r.err)]
                 ELSE IF r.version
                 THEN [pc |-> "return", args |-> ld.args, ret |-> LoadRet("nil", "nil")]
                 ELSE [pc |-> IF r.path # << >> THEN "props" ELSE "load",
                       args |-> ld.args, cmdline |-> r.cmdline, path |-> r.path]
    /\ UNCHANGED << mainVars, lr, pl >>

\* props, err = properties.LoadURL(path) or properties.LoadFile(path, ...);
\* if err != nil { return nil, err }
LoadProps ==
    /\ ld.pc = "props"
    /\ \/ ld' = [ld EXCEPT !.pc = "load"]
       \/ ld' = [pc |-> "return", args |-> ld.args, ret |-> LoadRet("nil", "err")]
    /\ UNCHANGED << mainVars, lr, pl >>

\* return load(cmdline, environ, envprefix, props): a config, or an error
\* of the flags, the environment or the properties
LoadFlags ==
    /\ ld.pc = "load"
    /\ \/ ld' = [pc |-> "return", args |-> ld.args, ret |-> LoadRet("cfg", "nil")]
       \/ ld' = [pc |-> "return", args |-> ld.args, ret |-> LoadRet("nil", "err")]
    /\ UNCHANGED << mainVars, lr, pl >>

NextLoad ==
    \/ LoadParse
    \/ LoadProps
    \/ LoadFlags

SpecLoad == InitLoad /\ [][NextLoad]_vars

\* ============================================================= parseListen
MaxKeys == 3            \* keys of one listener descriptor

\* the keys of a descriptor and the values they are given
ListenKeys ==
    { "", "addr", "proto", "rt", "wt", "cs", "strictmatch", "tlsmin", "tlsmax",
      "tlsciphers", "x" }
KeyValues(k) ==
    CASE k \in { "", "addr" }         -> { "", ":80" }
      [] k = "proto"                  -> { "", "http", "https", "tcp", "tcp+sni", "udp" }
      [] k \in { "rt", "wt" }         -> { "1s", "bad" }
      [] k = "cs"                     -> { "", "name", "foo" }
      [] k = "strictmatch"            -> { "true", "false" }
      [] k \in { "tlsmin", "tlsmax" } -> { "tls12", "bad" }
      [] k = "tlsciphers"             -> { "0xc00a", "bad" }
      [] OTHER                        -> { "v" }

RECURSIVE MapsOver(_)
\* the maps with the keys ks
MapsOver(ks) ==
    IF ks = { } THEN { [x \in { } |-> ""] }
    ELSE LET k == CHOOSE x \in ks : TRUE
         IN  { [x \in ks |-> IF x = k THEN v ELSE m[x]] :
                 m \in MapsOver(ks \ { k }), v \in KeyValues(k) }

\* cfg map[string]string: the descriptors with at most MaxKeys keys
KVMaps ==
    UNION { MapsOver(ks) : ks \in { s \in SUBSET ListenKeys : Cardinality(s) <= MaxKeys } }

\* cs map[string]CertSource: the names parseCertSources has defined
CertSourceNames == { "name" }

\* time.ParseDuration, parseTLSVersion, parseTLSCiphers accept the value
DurationOk(v) == v = "1s"
TLSVersionOk(v) == v = "tls12"
TLSCiphersOk(v) == v = "0xc00a"

\* Listen{}
ListenZero ==
    [ Addr |-> "", Proto |-> "", ReadTimeout |-> "0", WriteTimeout |-> "0",
      CertSource |-> "", StrictMatch |-> FALSE,
      TLSMinVersion |-> "0", TLSMaxVersion |-> "0", TLSCiphers |-> "nil" ]

\* return Listen{}, err
ParseListenFail(frame, e) ==
    [frame EXCEPT !.pc = "return", !.l = ListenZero, !.err = e]

InitListen ==
    /\ cfg \in { c \in Configs : c.Backend = "file" /\ ~c.Prof }
    /\ InitState
    /\ pl \in { [ pc |-> "range", cfg |-> m, todo |-> DOMAIN m,
                  l |-> [ListenZero EXCEPT !.ReadTimeout = rw, !.WriteTimeout = rw],
                  csName |-> "", err |-> "nil" ] :
                m \in KVMaps, rw \in { "0", "5s" } }
    /\ lr = NoCall /\ ld = NoCall

\* the body of the loop for the key k: switch k { ... }
ParseListenStep(frame, k) ==
    LET v    == frame.cfg[k]
        rest == [frame EXCEPT !.todo = @ \ { k }]
    IN  CASE k \in { "", "addr" } -> [rest EXCEPT !.l.Addr = v]
          [] k = "proto" ->
               IF v \in { "tcp", "tcp+sni", "http", "https" }
               THEN [rest EXCEPT !.l.Proto = v]
               ELSE ParseListenFail(rest, "unknown protocol")
          [] k = "rt" ->
               IF DurationOk(v) THEN [rest EXCEPT !.l.ReadTimeout = v]
               ELSE ParseListenFail(rest, "duration")
          [] k = "wt" ->
               IF DurationOk(v) THEN [rest EXCEPT !.l.WriteTimeout = v]
               ELSE ParseListenFail(rest, "duration")
          [] k = "cs" ->
               IF v \notin CertSourceNames
               THEN ParseListenFail(rest, "unknown certificate source")
               ELSE [rest EXCEPT !.csName = v,
                                 !.l.CertSource = v,
                                 !.l.Proto = IF @ = "" THEN "https" ELSE @]
          [] k = "strictmatch" -> [rest EXCEPT !.l.StrictMatch = (v = "true")]
          [] k = "tlsmin" ->
               IF TLSVersionOk(v) THEN [rest EXCEPT !.l.TLSMinVersion = v]
               ELSE ParseListenFail(rest, "tls version")
          [] k = "tlsmax" ->
               IF TLSVersionOk(v) THEN [rest EXCEPT !.l.TLSMaxVersion = v]
               ELSE ParseListenFail(rest, "tls version")
          [] k = "tlsciphers" ->
               IF TLSCiphersOk(v) THEN [rest EXCEPT !.l.TLSCiphers = v]
               ELSE ParseListenFail(rest, "tls ciphers")
          [] OTHER -> rest

\* for k, v := range cfg { switch k { ... } }: one iteration; the order in
\* which a map is ranged over is not fixed
ParseListenKey(k) ==
    /\ pl.pc = "range" /\ k \in pl.todo
    /\ pl' = ParseListenStep(pl, k)
    /\ UNCHANGED << mainVars, lr, ld >>

\* A parseListen without the check "cert source requires proto https or tcp".
ParseListenFinish_NoCertProtoCheck ==
    /\ pl.pc = "range" /\ pl.todo = { }
    /\ LET proto == IF pl.l.Proto = "" THEN "http" ELSE pl.l.Proto
       IN  pl' =
             IF pl.l.Addr = ""
             THEN ParseListenFail(pl, "need listening host:port")
             ELSE IF pl.csName = "" /\ proto = "https"
             THEN ParseListenFail(pl, "proto 'https' requires cert source")
             ELSE [pl EXCEPT !.pc = "return", !.l.Proto = proto]
    /\ UNCHANGED << mainVars, lr, ld >>

\* the statements after the loop: default protocol, the three checks, return
ParseListenEnd(frame) ==
    LET proto == IF frame.l.Proto = "" THEN "http" ELSE frame.l.Proto
    IN  IF frame.l.Addr = ""
        THEN ParseListenFail(frame, "need listening host:port")
        ELSE IF frame.csName # "" /\ proto # "https" /\ proto # "tcp"
        THEN ParseListenFail(frame, "cert source requires proto 'https' or 'tcp'")
        ELSE IF frame.csName = "" /\ proto = "https"
        THEN ParseListenFail(frame, "proto 'https' requires cert source")
        ELSE [frame EXCEPT !.pc = "return", !.l.Proto = proto]

\* parseListen leaves the loop and returns
ParseListenFinish ==
    /\ pl.pc = "range" /\ pl.todo = { }
    /\ pl' = ParseListenEnd(pl)
    /\ UNCHANGED << mainVars, lr, ld >>

NextListen ==
    \/ \E k \in ListenKeys : ParseListenKey(k)
    \/ ParseListenFinish

SpecListen == InitListen /\ [][NextListen]_vars

\* ========================================================== parseListeners
MaxEntries == 2         \* listener descriptors in one proxy.addr value

\* the keys and values of the descriptors handed to parseListeners
EntryKeys == { "", "proto", "cs" }
EntryValues(k) ==
    CASE k = ""      -> { ":80", ":81" }
      [] k = "proto" -> { "http", "https", "tcp", "tcp+sni" }
      [] OTHER       -> { "name", "foo" }

RECURSIVE EntriesOver(_)
\* the descriptors with the keys ks
EntriesOver(ks) ==
    IF ks = { } THEN { [x \in { } |-> ""] }
    ELSE LET k == CHOOSE x \in ks : TRUE
         IN  { [x \in ks |-> IF x = k THEN v ELSE m[x]] :
                 m \in EntriesOver(ks \ { k }), v \in EntryValues(k) }

\* kvs, err := parseKVSlice(cfgs): one map per entry of cfgs, in input order
ListenerEntries == UNION { EntriesOver(ks) : ks \in SUBSET EntryKeys }

\* the call parseListeners(cfgs, cs, readTimeout, writeTimeout), with the
\* frame of the parseListen call it is in
InitListeners ==
    /\ cfg \in { c \in Configs : c.Backend = "file" /\ ~c.Prof }
    /\ InitState
    /\ pl \in { [ pc |-> "loop", kvs |-> kvs, i |-> 1, listen |-> << >>, rw |-> "5s",
                  cfg |-> [x \in { } |-> ""], todo |-> { },
                  l |-> ListenZero, csName |-> "", err |-> "nil" ] :
                kvs \in SeqsUpTo(ListenerEntries, MaxEntries) }
    /\ lr = NoCall /\ ld = NoCall

\* for _, cfg := range kvs { l, err := parseListen(cfg, cs, ...): the call;
\* after the last entry: return
ListenersNext ==
    /\ pl.pc = "loop"
    /\ pl' = IF pl.i > Len(pl.kvs)
             THEN [pl EXCEPT !.pc = "done"]
             ELSE [pl EXCEPT !.pc = "range",
                             !.cfg = pl.kvs[pl.i],
                             !.todo = DOMAIN pl.kvs[pl.i],
                             !.l = [ListenZero EXCEPT !.ReadTimeout = pl.rw,
                                                      !.WriteTimeout = pl.rw],
                             !.csName = ""]
    /\ UNCHANGED << mainVars, lr, ld >>

\* A parseListeners that puts each Listen in front of the earlier ones.
ListenersAppend_Prepends ==
    /\ pl.pc = "return" /\ "kvs" \in DOMAIN pl
    /\ pl' = IF pl.err # "nil"
             THEN [pl EXCEPT !.pc = "done", !.listen = << >>]
             ELSE [pl EXCEPT !.pc = "loop", !.listen = << pl.l >> \o @, !.i = @ + 1]
    /\ UNCHANGED << mainVars, lr, ld >>

\* if err != nil { return nil, err }; listen = append(listen, l)
ListenersAppend ==
    /\ pl.pc = "return" /\ "kvs" \in DOMAIN pl
    /\ pl' = IF pl.err # "nil"
             THEN [pl EXCEPT !.pc = "done", !.listen = << >>]
             ELSE [pl EXCEPT !.pc = "loop", !.listen = Append(@, pl.l), !.i = @ + 1]
    /\ UNCHANGED << mainVars, lr, ld >>

NextListeners ==
    \/ ListenersNext
    \/ \E k \in ListenKeys : ParseListenKey(k)
    \/ ParseListenFinish
    \/ ListenersAppend

SpecListeners == InitListeners /\ [][NextListeners]_vars

\* =============================================================== parseAuth
MaxOpt == 4             \* longest value of the auth option, in characters

AuthChars == { " ", ";", "j" }
\* the values of the auth option
AuthOpts == SeqsUpTo(AuthChars, MaxOpt)

RECURSIVE Split(_, _)
\* strings.Split(s, sep) for a one-character separator
Split(s, sep) ==
    IF \A i \in DOMAIN s : s[i] # sep THEN << s >>
    ELSE LET n == CHOOSE i \in DOMAIN s : s[i] = sep /\ \A j \in 1..(i - 1) : s[j] # sep
         IN  << SubSeq(s, 1, n - 1) >> \o Split(SubSeq(s, n + 1, Len(s)), sep)

\* Auth{}
AuthZero == [ Enabled |-> FALSE, Type |-> << >>, ConfigFile |-> "" ]

\* the maps a parsed key/value text can hold
KVNone == [x \in { } |-> ""]
KVFile(v) == [x \in { "file" } |-> v]
KVOther == [x \in { "k" } |-> "v"]

\* parseKVSlice(s): its results (kvs, err). The text "" has no key/value
\* pair (the option "jwt;" is refused with errInvalidConfig); every other
\* text has some result or other.
KVResults(s) ==
    IF s = << >>
    THEN { [kvs |-> << >>, err |-> "nil"], [kvs |-> << KVNone >>, err |-> "nil"] }
    ELSE { [kvs |-> << >>, err |-> "kv"] }
         \cup { [kvs |-> k, err |-> "nil"] :
                  k \in { << >>, << KVNone >>, << KVFile("") >>, << KVFile("f") >>,
                          << KVOther >>, << KVFile("f"), KVOther >> } }

\* m[k] of a Go map: the zero value for a missing key
MapGet(m, k) == IF k \in DOMAIN m THEN m[k] ELSE ""

\* return auth, err
AuthReturn(frame, a, e) == [frame EXCEPT !.pc = "return", !.auth = a, !.err = e]

\* the call parseAuth(opt) made by load
InitAuth ==
    /\ cfg \in { c \in Configs : c.Backend = "file" /\ ~c.Prof }
    /\ InitState
    /\ ld \in { [pc |-> "auth", opt |-> o, auth |-> AuthZero, err |-> "nil",
                  kvtext |-> << >>, kvr |-> [kvs |-> << >>, err |-> "nil"]] :
                o \in AuthOpts }
    /\ lr = NoCall /\ pl = NoCall

\* cfgs := strings.TrimSpace(opt); if cfgs == "" { return }
\* parts := strings.Split(cfgs, ";"); if len(parts) != 2 { err = errInvalidConfig; return }
\* auth.Type = strings.TrimSpace(parts[0])
AuthParts ==
    /\ ld.pc = "auth"
    /\ LET cfgs  == TrimSpace(ld.opt)
           parts == Split(cfgs, ";")
       IN  ld' = IF cfgs = << >> THEN AuthReturn(ld, ld.auth, "nil")
                 ELSE IF Len(parts) # 2
                 THEN AuthReturn(ld, ld.auth, "errInvalidConfig")
                 ELSE [ld EXCEPT !.pc = "kvs",
                                 !.auth.Type = TrimSpace(parts[1]),
                                 !.kvtext = parts[2]]
    /\ UNCHANGED << mainVars, lr, pl >>

\* A parseAuth without the check of the type.
AuthFile_NoTypeCheck ==
    /\ ld.pc = "kvs"
    /\ \E r \in KVResults(ld.kvtext) :
         LET got == [ld EXCEPT !.kvr = r]
         IN  ld' =
               IF r.err # "nil" THEN AuthReturn(got, ld.auth, r.err)
               ELSE IF Len(r.kvs) < 1 \/ Cardinality(DOMAIN r.kvs[1]) < 1
               THEN AuthReturn(got, ld.auth, "errInvalidConfig")
               ELSE LET a == [ld.auth EXCEPT !.ConfigFile = MapGet(r.kvs[1], "file")]
                    IN  IF a.ConfigFile = ""
                        THEN AuthReturn(got, a, "auth config file required")
                        ELSE AuthReturn(got, [a EXCEPT !.Enabled = TRUE], "nil")
    /\ UNCHANGED << mainVars, lr, pl >>

\* if kvs, err = parseKVSlice(parts[1]); err != nil { return }
\* if len(kvs) < 1 || len(kvs[0]) < 1 { err = errInvalidConfig; return }
\* auth.ConfigFile = kvs[0]["file"]; the two checks; auth.Enabled = true
AuthFile ==
    /\ ld.pc = "kvs"
    /\ \E r \in KVResults(ld.kvtext) :
         LET got == [ld EXCEPT !.kvr = r]
         IN  ld' =
               IF r.err # "nil" THEN AuthReturn(got, ld.auth, r.err)
               ELSE IF Len(r.kvs) < 1 \/ Cardinality(DOMAIN r.kvs[1]) < 1
               THEN AuthReturn(got, ld.auth, "errInvalidConfig")
               ELSE LET a == [ld.auth EXCEPT !.ConfigFile = MapGet(r.kvs[1], "file")]
                    IN  IF a.Type = << >>
                        THEN AuthReturn(got, a, "auth type required")
                        ELSE IF a.ConfigFile = ""
                        THEN AuthReturn(got, a, "auth config file required")
                        ELSE AuthReturn(got, [a EXCEPT !.Enabled = TRUE], "nil")
    /\ UNCHANGED << mainVars, lr, pl >>

NextAuth ==
    \/ AuthParts
    \/ AuthFile

SpecAuth == InitAuth /\ [][NextAuth]_vars

\* ============================================================ startServers
MaxServers == 2         \* listener descriptors handed to startServers

\* the descriptors startServers can be handed, whatever config.Load admits
ServerDescriptors ==
    { Descriptor(p, c) : p \in Protos \cup { "udp" }, c \in { "", "name", "broken" } }
ServerUnitIds == { Admin } \cup (1..MaxServers)

\* startServers on its own, with the listener goroutines it starts: the
\* state in which main has received the first table
InitServers ==
    /\ cfg \in [ Backend : { "file" }, Retry : { 1 }, Steps : { 0 }, Prof : { FALSE },
                 Listen  : SeqsUpTo(ServerDescriptors, MaxServers) ]
    /\ exitState = "running"
    /\ shuttingDown = 0
    /\ signals = "none"
    /\ mpc = "start_servers"
    /\ hpc = "idle"
    /\ wpc = "select"
    /\ registryDefault = "registered"
    /\ err = FALSE
    /\ now = 0 /\ deadline = 0 /\ overhead = 0
    /\ attempts = 0 /\ lateAttempts = 0
    /\ svccfg = <<>> /\ mancfg = <<>> /\ last = << NL >> /\ next = << NL >>
    /\ t = EmptyTable
    /\ table = EmptyTable
    /\ first = "closed"
    /\ onceDone = TRUE
    /\ failed = FALSE /\ nSet = "one" /\ nClose = 1
    /\ units = [u \in ServerUnitIds |-> IF u = Admin THEN "serving" ELSE "none"]
    /\ kinds = [u \in ServerUnitIds |-> IF u = Admin THEN "admin" ELSE "none"]
    /\ idx = 1
    /\ lkpc = "idle" /\ lksnap = EmptyTable /\ lkhost = "a" /\ lkres = "none"
    /\ nLookups = 0 /\ notFound = 0
    /\ hlog = <<>>
    /\ NoCalls

NextServers ==
    \/ StartServers
    \/ \E u \in ServerUnitIds : UnitListen(u)

SpecServers == InitServers /\ [][NextServers]_vars

\* ================================================================= lookups
\* the listener descriptors config.Load yields, one per protocol
LookupDescriptors ==
    { Descriptor(p, IF p \in { "https", "tcp" } THEN "name" ELSE "") : p \in Protos }

\* The lookups of the proxy listeners on their own: the state in which
\* startServers has returned, every listener serves and the loop has
\* published its first table.
InitLookup ==
    /\ cfg \in [ Backend : { "file" }, Retry : { 1 }, Steps : { 0 }, Prof : { FALSE },
                 Listen  : SeqsUpTo(LookupDescriptors, MaxServers) \ { <<>> } ]
    /\ exitState = "running"
    /\ shuttingDown = 0
    /\ signals = "none"
    /\ mpc = "exit_wait"
    /\ hpc = "idle"
    /\ wpc = "select"
    /\ registryDefault = "registered"
    /\ err = FALSE
    /\ now = 0 /\ deadline = 0 /\ overhead = 0
    /\ attempts = 0 /\ lateAttempts = 0
    /\ svccfg \in { <<>>, <<"a">> } /\ mancfg \in { <<>>, <<"a">> }
    /\ last = Concat(svccfg, mancfg) /\ next = last
    /\ t = NewTable(last).t
    /\ table = t
    /\ first = "closed"
    /\ onceDone = TRUE
    /\ failed = FALSE /\ nSet = "one" /\ nClose = 1
    /\ units = [u \in ServerUnitIds |->
                  IF u <= Len(cfg.Listen) THEN "serving" ELSE "none"]
    /\ kinds = [u \in ServerUnitIds |->
                  IF u = Admin THEN "admin"
                  ELSE IF u <= Len(cfg.Listen) THEN ServerKind(cfg.Listen[u].Proto)
                  ELSE "none"]
    /\ idx = Len(cfg.Listen) + 1
    /\ lkpc = "idle" /\ lksnap = EmptyTable /\ lkhost = "a" /\ lkres = "none"
    /\ nLookups = 0 /\ notFound = 0
    /\ hlog = <<>>
    /\ NoCalls

NextLookup ==
    \/ \E u \in ServerUnitIds, host \in Hosts : LookupGetTable(u, host)
    \/ LookupTarget

SpecLookup == InitLookup /\ [][NextLookup]_vars

\* ==================================================================== load
\* the values the flags, the environment or the properties give an option
FlagValues(name) ==
    CASE name = "proxy.strategy"    -> { "rr", "rnd", "", "RR", "random" }
      [] name = "proxy.matcher"     -> { "prefix", "glob", "", "regex" }
      [] name = "ui.access"         -> { "ro", "rw", "", "RW" }
      [] name = "registry.backend"  -> { "consul", "value" }
      [] name = "log.routes.format" -> { "delta", "value" }
      [] name = "proxy.log.routes"  -> { "", "all" }

\* load(cmdline, environ, envprefix, props) from the return of f.ParseFlags
\* on: cfg (c) holds the values the sources gave the options
InitValidate ==
    /\ cfg \in { c \in Configs : c.Backend = "file" /\ ~c.Prof }
    /\ InitState
    /\ ld \in { [pc |-> "flags",
                 c |-> [Strategy |-> s, Matcher |-> m, Access |-> a, Backend |-> b,
                        RoutesFormat |-> f],
                 logRoutesFormat |-> f, proxyLogRoutes |-> p,
                 ret |-> LoadRet("none", "none")] :
                s \in FlagValues("proxy.strategy"), m \in FlagValues("proxy.matcher"),
                a \in FlagValues("ui.access"), b \in FlagValues("registry.backend"),
                f \in FlagValues("log.routes.format"),
                p \in FlagValues("proxy.log.routes") }
    /\ lr = NoCall /\ pl = NoCall

\* return nil, err
LoadFail(e) == ld' = [ld EXCEPT !.pc = "return", !.ret = LoadRet("nil", e)]

\* f.ParseFlags, parseAuth, parseCertSources, parseListen of ui.addr,
\* parseListeners, regexp.Compile: each returns nil and its error, or goes on
LoadParseFlags ==
    /\ ld.pc = "flags"
    /\ \/ ld' = [ld EXCEPT !.pc = "strategy"]
       \/ LoadFail("err")
    /\ UNCHANGED << mainVars, lr, pl >>

\* if cfg.Proxy.Strategy != "rr" && cfg.Proxy.Strategy != "rnd" { return nil, ... }
LoadStrategy ==
    /\ ld.pc = "strategy"
    /\ IF ld.c.Strategy # "rr" /\ ld.c.Strategy # "rnd"
       THEN LoadFail("invalid proxy.strategy")
       ELSE ld' = [ld EXCEPT !.pc = "matcher"]
    /\ UNCHANGED << mainVars, lr, pl >>

\* if cfg.Proxy.Matcher != "prefix" && cfg.Proxy.Matcher != "glob" { return nil, ... }
LoadMatcher ==
    /\ ld.pc = "matcher"
    /\ IF ld.c.Matcher # "prefix" /\ ld.c.Matcher # "glob"
       THEN LoadFail("invalid proxy.matcher")
       ELSE ld' = [ld EXCEPT !.pc = "access"]
    /\ UNCHANGED << mainVars, lr, pl >>

\* A load that lets every ui.access through.
LoadAccess_AcceptsAny ==
    /\ ld.pc = "access"
    /\ ld' = [ld EXCEPT !.pc = "deprecate"]
    /\ UNCHANGED << mainVars, lr, pl >>

\* if cfg.UI.Access != "ro" && cfg.UI.Access != "rw" { return nil, ... }
LoadAccess ==
    /\ ld.pc = "access"
    /\ IF ld.c.Access # "ro" /\ ld.c.Access # "rw"
       THEN LoadFail("invalid ui.access")
       ELSE ld' = [ld EXCEPT !.pc = "deprecate"]
    /\ UNCHANGED << mainVars, lr, pl >>

\* if proxyLogRoutes != "" { cfg.Log.RoutesFormat = proxyLogRoutes }
\* return cfg, nil
LoadDeprecate ==
    /\ ld.pc = "deprecate"
    /\ ld' = [ld EXCEPT !.pc = "return",
                        !.c.RoutesFormat = IF ld.proxyLogRoutes # ""
                                           THEN ld.proxyLogRoutes ELSE @,
                        !.ret = LoadRet("cfg", "nil")]
    /\ UNCHANGED << mainVars, lr, pl >>

NextValidate ==
    \/ LoadParseFlags
    \/ LoadStrategy
    \/ LoadMatcher
    \/ LoadAccess
    \/ LoadDeprecate

SpecValidate == InitValidate /\ [][NextValidate]_vars

\* ============================================================= parseUint16
MaxDigits == 5          \* longest value of tlsmin, tlsmax, tlsciphers, in characters

\* the characters of a value: digits, the sign, the separator of ciphers
UintChars == { "0", "3", "5", "6", "7", "-", "," }
UintTexts == SeqsUpTo(UintChars, MaxDigits) \cup { << "t", "l", "s", "1", "2" >> }

\* var tlsver: the named versions (one of them)
TLSVer(s) == IF s = << "t", "l", "s", "1", "2" >> THEN 771 ELSE -1

DigitOf(c) ==
    CASE c = "0" -> 0 [] c = "3" -> 3 [] c = "5" -> 5 [] c = "6" -> 6
      [] c = "7" -> 7 [] OTHER -> -1

RECURSIVE NumberIn(_, _)
\* the number the digits denote in the base
NumberIn(ds, base) ==
    IF ds = << >> THEN 0
    ELSE NumberIn(SubSeq(ds, 1, Len(ds) - 1), base) * base + DigitOf(ds[Len(ds)])

\* strconv.ParseUint(s, 0, 32): a leading "0" before further digits selects
\* base 8, else base 10; empty text, a sign or any other character is a
\* syntax error (texts of MaxDigits characters stay below 2^32)
ParseUint(s) ==
    LET octal == Len(s) > 1 /\ s[1] = "0"
        ds    == IF octal THEN Tail(s) ELSE s
    IN  IF s = << >> \/ \E i \in DOMAIN ds : DigitOf(ds[i]) < 0
        THEN [n |-> 0, err |-> "syntax"]
        ELSE [n |-> NumberIn(ds, IF octal THEN 8 ELSE 10), err |-> "nil"]

\* A parseUint16 that refuses every number above 65535.
ParseUint16_Checked(s) ==
    LET r == ParseUint(s)
    IN  IF r.err # "nil" THEN [n |-> 0, err |-> r.err]
        ELSE IF r.n > 65535 THEN [n |-> 0, err |-> "out of range"]
        ELSE [n |-> r.n % 65536, err |-> "nil"]

\* n, err := strconv.ParseUint(s, 0, 32); if err != nil { return 0, err }
\* if n > 1<<16 { return 0, "out of range" }; return uint16(n), nil
ParseUint16(s) ==
    LET r == ParseUint(s)
    IN  IF r.err # "nil" THEN [n |-> 0, err |-> r.err]
        ELSE IF r.n > 65536 THEN [n |-> 0, err |-> "out of range"]
        ELSE [n |-> r.n % 65536, err |-> "nil"]

\* parseTLSVersion(s): a named version, else parseUint16 (strings.ToLower
\* changes none of the characters of the values)
ParseTLSVersion(s) ==
    LET v == TrimSpace(s)
    IN  IF TLSVer(v) >= 0 THEN [n |-> TLSVer(v), err |-> "nil"] ELSE ParseUint16(v)

RECURSIVE ParseCipherList(_, _)
\* the loop of parseTLSCiphers over the parts, c the ciphers so far (no
\* part of the values is a cipher name)
ParseCipherList(parts, c) ==
    IF parts = << >> THEN [c |-> c, err |-> "nil"]
    ELSE LET r == ParseUint16(TrimSpace(Head(parts)))
         IN  IF r.err # "nil" THEN [c |-> << >>, err |-> r.err]
             ELSE ParseCipherList(Tail(parts), Append(c, r.n))

\* parseTLSCiphers(s)
ParseTLSCiphers(s) == ParseCipherList(Split(s, ","), << >>)

\* the value of one of the keys tlsmin, tlsmax, tlsciphers of a listener
InitUint16 ==
    /\ cfg \in { c \in Configs : c.Backend = "file" /\ ~c.Prof }
    /\ InitState
    /\ pl \in { [pc |-> "call", k |-> k, v |-> v] :
                k \in { "tlsmin", "tlsmax", "tlsciphers" }, v \in UintTexts }
    /\ lr = NoCall /\ ld = NoCall

\* case "tlsmin", "tlsmax": n, err := parseTLSVersion(v)
TLSVersionCall ==
    /\ pl.pc = "call" /\ pl.k \in { "tlsmin", "tlsmax" }
    /\ pl' = [pc |-> "return", k |-> pl.k, v |-> pl.v,
              n |-> ParseTLSVersion(pl.v).n, err |-> ParseTLSVersion(pl.v).err]
    /\ UNCHANGED << mainVars, lr, ld >>

\* case "tlsciphers": c, err := parseTLSCiphers(v)
TLSCiphersCall ==
    /\ pl.pc = "call" /\ pl.k = "tlsciphers"
    /\ pl' = [pc |-> "return", k |-> pl.k, v |-> pl.v,
              c |-> ParseTLSCiphers(pl.v).c, err |-> ParseTLSCiphers(pl.v).err]
    /\ UNCHANGED << mainVars, lr, ld >>

NextUint16 ==
    \/ TLSVersionCall
    \/ TLSCiphersCall

SpecUint16 == InitUint16 /\ [][NextUint16]_vars

\* ================================================================ claims

\* C1: a notification whose concatenation svccfg + "\n" + mancfg equals the
\* previously accepted concatenation is skipped: the loop goes straight back
\* to its select, so no compile is made, the current table is not replaced,
\* the diff logger is not called and the readiness gate is not fired; the
\* loop compiles, publishes and logs only a text that differs from last.
C1_UnchangedTextIsSkipped ==
    /\ [](wpc \in { "compile", "publish", "log" } => next # last)
    /\ [][ ((WatchServices \/ WatchManual) /\ next' = last)
           => /\ wpc' = "select"
              /\ UNCHANGED << table, last, first, onceDone, nClose, nSet, failed >> ]_vars

\* A notification that repeats the accepted text has been received and skipped.
C1_Witness ==
    /\ wpc = "select" /\ nSet # "none"
    /\ next = last /\ Concat(svccfg, mancfg) = last
    /\ t = NilTable

\* C2: when the compile of the concatenated text fails, the current table,
\* the previously accepted concatenation and the readiness gate stay as they
\* are and nothing is logged or published; the process keeps running and the
\* loop is back at its select, ready for the next notification of either
\* source.
C2_FailedCompileIsDropped ==
    /\ [][ (WatchCompile /\ NewTable(next).err)
           => /\ wpc' = "select"
              /\ exitState' = "running"
              /\ UNCHANGED << table, last, first, onceDone, nClose, nSet >> ]_vars
    /\ []((failed /\ Running)
           => /\ wpc \in { "select", "compile", "publish", "log" }
              /\ (wpc = "select" => ENABLED WatchServices /\ ENABLED WatchManual))

\* After a failed compile a later notification has been compiled successfully.
C2_Witness == failed /\ wpc = "publish" /\ Running

\* the tables route.NewTable builds from the texts the loop can compile
CompleteTables ==
    { EmptyTable } \cup
    { NewTable(Concat(s, m)).t :
        s \in { x \in Snapshots : ~NewTable(x).err },
        m \in { x \in Snapshots : ~NewTable(x).err } }

\* C3: the current table is at every moment a completely built table, and a
\* lookup that runs while the loop publishes works on the complete table it
\* loaded (the old or the new one), never on the result of a failed or
\* unfinished compile; the load never waits for the loop and the store never
\* waits for a lookup.
C3_PublicationIsAllOrNothing ==
    /\ table \in CompleteTables
    /\ (InLookup => lksnap \in CompleteTables)
    /\ (Running /\ wpc = "publish" => ENABLED WatchSetTable)
    /\ (Running /\ InLookup => ENABLED LookupTarget)
    /\ \A u \in UnitIds \ { Admin }, h \in Hosts :
         (Running /\ units[u] = "serving" /\ lkpc = "idle" /\ nLookups < MaxLookups)
           => ENABLED LookupGetTable(u, h)

\* A lookup loaded the old table and the loop published a new one meanwhile.
C3_Witness == InLookup /\ lksnap # table /\ nSet # "none"

\* C4: the readiness gate is closed exactly once, by the first publish cycle
\* that completes: it is never closed again (a second close would panic),
\* it is closed if and only if the first successful publish has been logged,
\* and main passes the gate only when it is closed and can always pass it
\* then, whether it arrived before or after the close.
C4_GateFiresExactlyOnce ==
    /\ nClose <= 1 /\ exitState # "panic"
    /\ (first = "closed") <=> (nClose = 1)
    /\ (first = "closed") <=> (nSet # "none" /\ ~(nSet = "one" /\ wpc = "log"))
    /\ (mpc \in { "start_servers", "exit_wait", "done" } => first = "closed")
    /\ (Running /\ mpc = "wait_first" /\ first = "closed" => ENABLED WaitFirst)

\* A second publish cycle has completed, the gate was closed once, main is past it.
C4_Witness ==
    /\ nSet = "many" /\ wpc = "select" /\ nClose = 1
    /\ mpc = "start_servers"

\* C5 as stated: no serving unit, the admin listener included, runs before
\* the first routing table has been published.
C5_Original ==
    \A u \in UnitIds : units[u] = "serving" => nSet # "none"

\* C5 as amended: every proxy listener of cfg.Listen is started only after
\* the first routing table has been published and the gate has fired; the
\* admin listener is started earlier, after the registration has succeeded
\* and before the hot-reload loop is started.
C5_ProxyListenersAfterFirstTable ==
    /\ \A u \in UnitIds \ { Admin } :
         units[u] # "none" => (nSet # "none" /\ first = "closed")
    /\ (wpc # "off" => units[Admin] # "none")
    /\ (units[Admin] # "none" =>
          mpc \in { "go_watch", "wait_first", "start_servers", "exit_wait", "done" })

\* Admin and proxy listener serve, the first table is published.
C5_Witness ==
    /\ units[Admin] = "serving" /\ units[1] = "serving"
    /\ nSet # "none" /\ Running

\* initBackend has ended the process at its deadline check
FatalTimeout == exitState = "code1" /\ mpc = "ib_deadline"

\* C6 as stated: with Timeout = Steps * Retry, a backend that always fails
\* and no signal, the fatal exit comes after exactly Steps + 1 attempts.
C6_Original ==
    (FatalTimeout /\ signals = "none") => attempts = cfg.Steps + 1

\* C6 as amended: the deadline is checked right after each failed attempt,
\* before the sleep, and the loop goes on to sleep only when the clock is
\* not past the deadline; the fatal exit happens at the first check that
\* finds the clock strictly past the deadline, after at least one and at most
\* Steps + 2 attempts, and after exactly Steps + 2 attempts when the attempts
\* themselves take no time (the check at exactly Timeout does not fire).
C6_FatalAtFirstCheckPastDeadline ==
    /\ (mpc \in { "ib_register", "ib_deadline" } =>
          now = overhead + (attempts - 1) * cfg.Retry)
    /\ (mpc = "ib_sleep" => now <= deadline)
    /\ (FatalTimeout =>
          /\ now > deadline
          /\ attempts >= 1 /\ attempts <= cfg.Steps + 2
          /\ (overhead = 0 => attempts = cfg.Steps + 2)
          /\ (attempts <= cfg.Steps => overhead >= cfg.Retry))

\* The longest timeout, attempts that take no time, no signal: fatal exit
\* after Steps + 2 attempts.
C6_Witness ==
    /\ FatalTimeout /\ signals = "none"
    /\ cfg.Steps = MaxTimeoutSteps /\ overhead = 0
    /\ attempts = cfg.Steps + 2

\* C7 as stated: once shutdown is requested while the loop is running (it
\* has made an attempt already), the loop starts no further registration
\* attempt.
C7_Original == ~(lateAttempts >= 1 /\ attempts >= 2)

\* C7 as amended: once the shutdown flag is set the loop starts at most one
\* further attempt (when the flag is set between the shutdown check and the
\* start of the next iteration), does not begin another iteration after it,
\* and never goes on from a shutdown check that finds the flag set: the
\* process ends there, unless the deadline check ended it before.
C7_AtMostOneLateAttempt ==
    /\ [](lateAttempts <= 1)
    /\ []((lateAttempts = 1 /\ Running) =>
            mpc \in { "ib_register", "ib_deadline", "ib_sleep", "ib_shutcheck" })
    /\ []((Running /\ mpc = "ib_shutcheck") => ENABLED InitBackendShutdownCheck)
    /\ [][ (mpc = "ib_shutcheck" /\ shuttingDown > 0 /\ mpc' # mpc) => FALSE ]_vars
    /\ [][ (InitBackendShutdownCheck /\ shuttingDown > 0) => exitState' = "code1" ]_vars

\* The loop made one attempt after the flag was set and then left at its
\* shutdown check.
C7_Witness ==
    /\ exitState = "code1" /\ mpc = "ib_shutcheck"
    /\ lateAttempts = 1 /\ shuttingDown = 1

\* the calls of a complete run of the handler, in order
TeardownOrder(dereg) ==
    << "store", "shutdown" >>
      \o (IF cfg.Prof THEN << "profstop" >> ELSE << >>)
      \o (IF dereg THEN << "deregister" >> ELSE << >>)

IsPrefix(a, b) == Len(a) <= Len(b) /\ SubSeq(b, 1, Len(a)) = a

\* C8: the handler makes its calls in one fixed order, each after the
\* previous one returned: store the flag, proxy.Shutdown, prof.Stop (if a
\* profiler is active), Deregister; the backend is never deregistered
\* before the listeners were told to stop, and a started process never ends
\* normally (main returns after exit.Wait, code 0) before the deregistration
\* was attempted.
C8_TeardownOrder ==
    /\ IsPrefix(hlog, TeardownOrder(TRUE))
    /\ ((exitState = "code0" /\ mpc = "done") => hlog = TeardownOrder(TRUE))

\* C9: shuttingDown only ever goes from 0 to 1: from the handler's store on
\* it is 1 in every state, whoever reads it.
C9_ShutdownStateIsMonotonic ==
    /\ [](shuttingDown \in { 0, 1 })
    /\ [](Len(hlog) >= 1 => shuttingDown = 1)
    /\ [][ shuttingDown = 1 => shuttingDown' = 1 ]_vars

\* The flag was set, read by the retry loop, and is still set.
C9_Witness ==
    /\ shuttingDown = 1 /\ hpc = "done"
    /\ mpc = "ib_shutcheck" /\ exitState = "code1"

C11_BindFailureIsFatal ==
    /\ [][ \A u \in UnitIds :
             (UnitListen(u) /\ units'[u] # "serving") => exitState' = "code1" ]_vars
    /\ [][ Running ]_vars

\* The admin listener serves, the proxy listener failed to bind: the process
\* is over.
C11_Witness ==
    /\ exitState = "code1" /\ mpc = "exit_wait"
    /\ units[Admin] = "serving" /\ units[1] = "spawned"

\* the table of the loop's latest completed route.SetTable
LatestPublished ==
    IF nSet = "none" THEN EmptyTable
    ELSE IF wpc = "log" THEN NewTable(next).t ELSE NewTable(last).t

\* C12: the current table is always the one the hot-reload loop published
\* last, and every lookup of a listener loads the current table in the step
\* in which it starts, however long the listener has been serving: a lookup
\* that starts after the loop replaced T1 by T2 works on T2, and its result
\* is the result of T2.
C12_LookupUsesCurrentTable ==
    /\ [](table = LatestPublished)
    /\ [][ \A u \in UnitIds, h \in Hosts :
             LookupGetTable(u, h) => (lksnap' = LatestPublished /\ lkhost' = h) ]_vars
    /\ [][ LookupTarget => lkres' = LookupReturn(lkpc, TableLookup(lksnap, lkhost)) ]_vars

\* The loop has replaced the first table, and a lookup that started
\* afterwards holds the replacement.
C12_Witness ==
    /\ InLookup /\ units[1] = "serving" /\ Running
    /\ nSet = "many" /\ wpc = "select"
    /\ lksnap = NewTable(last).t /\ lksnap = <<"a", "a">>

\* C13: the text the loop compiles is the remembered discovered text, one
\* newline, the remembered manual text, in this order; a notification of one
\* source replaces the remembered text of that source only, so the order of
\* the deliveries does not matter; a non-empty manual text is the end of the
\* compiled text and starts after the newline that follows the discovered
\* text.
C13_ManualAfterDiscovered ==
    /\ [](wpc \in { "compile", "publish", "log" } =>
            /\ next = svccfg \o << NL >> \o mancfg
            /\ Len(next) = Len(svccfg) + 1 + Len(mancfg)
            /\ \A i \in 1..Len(mancfg) : next[Len(svccfg) + 1 + i] = mancfg[i]
            /\ \A i \in 1..Len(svccfg) : next[i] = svccfg[i]
            /\ next[Len(svccfg) + 1] = NL)
    /\ [][ WatchServices => mancfg' = mancfg ]_vars
    /\ [][ WatchManual => svccfg' = svccfg ]_vars
    /\ [][ WatchCompile => t' = NewTable(svccfg \o << NL >> \o mancfg).t ]_vars

\* After the manual source delivered first and the discovered source second,
\* the loop is about to compile the discovered text followed by the manual one.
C13_Witness ==
    /\ wpc = "compile" /\ nSet # "none"
    /\ svccfg = << "!" >> /\ mancfg = << "a" >>
    /\ last = << NL, "a" >>
    /\ next = << "!", NL, "a" >>

\* C14: with an unknown backend kind the retry loop ends the process with a
\* non-zero code in its first iteration: no backend is constructed, Register
\* is not called, the loop does not sleep and makes no second iteration.
C14_UnknownBackendIsFatalAtOnce ==
    /\ [](cfg.Backend \notin BackendKinds =>
            /\ mpc \in { "load", "version", "ib_enter", "ib_new" }
            /\ attempts = 0 /\ now = 0
            /\ registryDefault = "nil")
    /\ []((Running /\ mpc = "ib_new") => ENABLED InitBackendNew)
    /\ [][ (InitBackendNew /\ cfg.Backend \notin BackendKinds)
             => exitState' = "code1" ]_vars

\* The loop has ended the process at its switch, before any attempt.
C14_Witness ==
    /\ cfg.Backend = "value"
    /\ exitState = "code1" /\ mpc = "ib_new"
    /\ attempts = 0 /\ now = 0 /\ registryDefault = "nil"

\* C15 as stated, for the shutdown path: a shutdown request never ends the
\* process with a non-zero code.
C15_Original ==
    ~(exitState = "code1" /\ mpc = "ib_shutcheck" /\ shuttingDown = 1)

\* C15 as amended: the exit code is 0 when main returns, after exit.Wait
\* that follows a signal-triggered teardown or right after printing the
\* version; a shutdown requested while the retry loop runs ends the process
\* with code 1 at the loop's shutdown check; an error of config.Load, an
\* unknown backend kind, the exhausted registration deadline and a listener
\* bind failure each end it with a non-zero code in that very step. The
\* process ends in no other way.
C15_ExitCodes ==
    /\ [](exitState \in { "running", "code0", "code1" })
    /\ [](exitState = "code0" =>
            \/ mpc = "version"
            \/ mpc = "done" /\ hpc = "done" /\ shuttingDown = 1 /\ signals # "none")
    /\ [](exitState = "code1" =>
            \/ mpc = "load"
            \/ mpc = "ib_new" /\ cfg.Backend \notin BackendKinds
            \/ mpc = "ib_deadline" /\ now > deadline
            \/ mpc = "ib_shutcheck" /\ shuttingDown = 1
            \/ /\ mpc \in { "go_watch", "wait_first", "start_servers", "exit_wait" }
               /\ \E u \in UnitIds : units[u] = "spawned")
    /\ [][ (InitBackendShutdownCheck /\ shuttingDown = 1) => exitState' = "code1" ]_vars
    /\ [][ (InitBackendDeadline /\ now > deadline) => exitState' = "code1" ]_vars
    /\ [][ (InitBackendNew /\ cfg.Backend \notin BackendKinds) => exitState' = "code1" ]_vars
    /\ [][ (MainLoad /\ mpc' = "load") => exitState' = "code1" ]_vars
    /\ [][ \A u \in UnitIds :
             (UnitListen(u) /\ units'[u] = "spawned") => exitState' = "code1" ]_vars
    /\ [][ ExitWait => exitState' = "code0" ]_vars

\* After a signal and the teardown main has returned from exit.Wait: code 0.
C15_Witness ==
    /\ exitState = "code0" /\ mpc = "done"
    /\ signals = "one" /\ hpc = "done" /\ hlog = TeardownOrder(TRUE)
    /\ units[1] = "stopped" /\ registryDefault = "deregistered"

\* the formats logRoutes has a case for
KnownFormats == { "detail", "delta", "all" }

\* C16: for every format without a case of its own logRoutes logs exactly
\* one warning and then exactly what mode delta logs for the same texts; a
\* format with a case of its own logs no warning; the call logRoutes makes
\* to itself is made with delta, which has a case of its own, so the
\* recursion is one call deep and every call returns.
C16_UnknownFormatFallsBackToDelta ==
    /\ lr.depth <= 1
    /\ (lr.depth = 1 => lr.format = defFormat /\ defFormat \in KnownFormats)
    /\ ((lr.pc = "return" /\ lr.depth = 0) =>
          /\ lr.format \in KnownFormats
          /\ \A i \in DOMAIN lr.log : lr.log[i].level # "WARN")
    /\ ((lr.pc = "return" /\ lr.depth = 1) =>
          /\ Len(lr.log) >= 1
          /\ lr.log[1].level = "WARN"
          /\ lr.log[1].arg[1] \notin KnownFormats
          /\ lr.log[1].arg[2] = "delta"
          /\ Tail(lr.log) = DeltaLines(lr.last, lr.next))

\* Format foobar: the warning, then the delta of the two texts.
C16_Witness ==
    /\ lr.pc = "return" /\ lr.depth = 1
    /\ Len(lr.log) = 2
    /\ lr.log[1] = LogLine("WARN", "Invalid route format", << "foobar", "delta" >>)
    /\ lr.log[2] = LogLine("INFO", "Config updates", << "+", " ", "b" >>)

RECURSIVE SplitLines(_)
\* the lines of a text: the pieces between its newlines
SplitLines(s) ==
    LET nl == { i \in DOMAIN s : s[i] = NL }
    IN  IF nl = { } THEN << s >>
        ELSE LET i == CHOOSE k \in nl : \A j \in nl : k <= j
             IN  << SubSeq(s, 1, i - 1) >> \o SplitLines(SubSeq(s, i + 1, Len(s)))

\* a line of the form "+ text" or "- text", the text being non-blank text of
\* the directive texts
EditLine(line) ==
    /\ HasPrefix(line, Plus) \/ HasPrefix(line, Minus)
    /\ Len(line) >= 3
    /\ \A i \in 3..Len(line) : line[i] \in LogChars
    /\ \E i \in 3..Len(line) : ~IsSpace(line[i])

\* C17: in delta mode every line of the logger's output is one inserted
\* line prefixed "+ " or one deleted line prefixed "- " (for previous
\* "a\nb" and next "a\nc": a line "- b" and a line "+ c", none for a).
C17_DeltaLinesArePrefixed ==
    (lr.pc = "return" /\ lr.format = "delta" /\ lr.depth = 0) =>
        \A k \in DOMAIN lr.log :
            LET lines == SplitLines(lr.log[k].arg)
            IN  \A i \in DOMAIN lines : EditLine(lines[i])

\* C18: in delta mode, when no inserted and no deleted segment of the diff
\* has non-blank content, logRoutes logs nothing (and after the fallback from
\* an unknown format nothing but the warning).
C18_BlankOnlyChangeLogsNothing ==
    (/\ lr.pc = "return" /\ lr.format = "delta"
     /\ \A i \in DOMAIN DiffMain(lr.last, lr.next) :
          LET d == DiffMain(lr.last, lr.next)[i]
          IN  d.Type \in { "Insert", "Delete" } => \A j \in DOMAIN d.Text : IsSpace(d.Text[j]))
    => \A k \in DOMAIN lr.log : lr.log[k].level = "WARN"

\* The next text has one more blank line than the previous one; mode delta
\* has returned and logged nothing.
C18_Witness ==
    /\ lr.pc = "return" /\ lr.format = "delta" /\ lr.depth = 0
    /\ lr.last = << "a", NL >> /\ lr.next = << "a", NL, NL >>
    /\ lr.log = << >>

\* the position of the first version flag after the executable name, 0 if
\* there is none
FirstVersion(args) ==
    LET at == { i \in 2..Len(args) : args[i] = ArgV \/ args[i] = ArgVersion }
    IN  IF at = { } THEN 0 ELSE CHOOSE i \in at : \A j \in at : i <= j

\* a config-file flag: -cfg, --cfg, -cfg=..., --cfg=...
IsCfgFlag(arg) ==
    \/ arg = ArgCfg \/ arg = ArgCfg2
    \/ HasPrefix(arg, PrefixCfgEq) \/ HasPrefix(arg, PrefixCfg2Eq)

\* C19 as stated: whenever -v or --version is among the arguments, Load
\* returns a nil config and a nil error.
C19_Original ==
    (ld.pc = "return" /\ FirstVersion(ld.args) # 0) => ld.ret = LoadRet("nil", "nil")

\* C19 as amended: when -v or --version is among the arguments and no
\* argument before its first occurrence is a config-file flag, Load returns a
\* nil config and a nil error, whatever the other arguments are; Load returns
\* that value only when a version flag is among the arguments; a version flag
\* right after the first -cfg / --cfg is the config path, not a version flag.
C19_VersionFlagReached ==
    ld.pc = "return" =>
      LET k == FirstVersion(ld.args)
      IN  /\ (k # 0 /\ \A j \in 2..(k - 1) : ~IsCfgFlag(ld.args[j]))
               => ld.ret = LoadRet("nil", "nil")
          /\ ld.ret = LoadRet("nil", "nil") => k # 0
          /\ (/\ k > 2 /\ k = Len(ld.args)
              /\ ld.args[k - 1] \in { ArgCfg, ArgCfg2 }
              /\ \A j \in 2..(k - 2) : ~IsCfgFlag(ld.args[j]))
               => ld.ret # LoadRet("nil", "nil")

\* --version between two other arguments, one of them a test flag that ends
\* in ".v": Load has returned nil, nil.
C19_Witness ==
    /\ ld.pc = "return"
    /\ ld.args = << ArgExec, ArgTestV, ArgVersion, ArgCfg >>
    /\ ld.ret = LoadRet("nil", "nil")

\* the descriptor has the key and gives it the value / a value
Has(m, k) == k \in DOMAIN m
Gives(m, k, v) == k \in DOMAIN m /\ m[k] = v

\* parseListen has returned an error and Listen{}
Rejected == pl.pc = "return" /\ pl.err # "nil" /\ pl.l = ListenZero

\* C20: parseListen returns an error and an empty Listen for every
\* descriptor that (a) names a protocol other than tcp, tcp+sni, http, https,
\* (b) has proto https and no certificate source, (c) has a certificate
\* source and a protocol other than https or tcp, (d) names a certificate
\* source that is not defined, or (e) has no address; every descriptor it
\* accepts has an address and one of the four protocols. This holds for
\* every order in which the keys of the descriptor are visited.
C20_ListenValidation ==
    pl.pc = "return" =>
      /\ pl.err # "nil" => pl.l = ListenZero
      /\ (Has(pl.cfg, "proto") /\ pl.cfg["proto"] \notin Protos) => Rejected
      /\ (Gives(pl.cfg, "proto", "https") /\ ~Has(pl.cfg, "cs")) => Rejected
      /\ (Has(pl.cfg, "cs") /\ Has(pl.cfg, "proto")
            /\ pl.cfg["proto"] \notin { "https", "tcp" }) => Rejected
      /\ (Has(pl.cfg, "cs") /\ pl.cfg["cs"] \notin CertSourceNames) => Rejected
      /\ (\A k \in { "", "addr" } : Has(pl.cfg, k) => pl.cfg[k] = "") => Rejected
      /\ pl.err = "nil" => (pl.l.Addr # "" /\ pl.l.Proto \in Protos)

\* A descriptor with an address, a defined certificate source and proto
\* tcp+sni has been rejected.
C20_Witness ==
    /\ Rejected
    /\ pl.cfg = [k \in { "addr", "cs", "proto" } |->
                   CASE k = "addr" -> ":80" [] k = "cs" -> "name" [] OTHER -> "tcp+sni"]
    /\ pl.err = "cert source requires proto 'https' or 'tcp'"

\* the protocol of a descriptor: the explicit one, else https with a
\* certificate source and http without
ResolvedProto(m) ==
    IF Has(m, "proto") THEN m["proto"]
    ELSE IF Has(m, "cs") THEN "https" ELSE "http"

\* C21: every Listen parseListen returns without an error has the explicit
\* proto of its descriptor if there is one, else https if the descriptor
\* names a certificate source and http otherwise; and when parseListeners
\* returns without an error it returns one Listen per descriptor, in input
\* order (the i-th Listen has the address and the protocol of the i-th
\* descriptor).
C21_ProtocolResolution ==
    /\ (pl.pc = "return" /\ pl.err = "nil") => pl.l.Proto = ResolvedProto(pl.cfg)
    /\ (pl.pc = "done" /\ pl.err = "nil") =>
         /\ Len(pl.listen) = Len(pl.kvs)
         /\ \A i \in DOMAIN pl.kvs :
              /\ pl.listen[i].Addr = pl.kvs[i][""]
              /\ pl.listen[i].Proto = ResolvedProto(pl.kvs[i])

\* parseListeners has returned the two Listens of ":80;cs=name;proto=tcp"
\* and ":81;cs=name": tcp, then https.
C21_Witness ==
    /\ pl.pc = "done" /\ pl.err = "nil"
    /\ Len(pl.kvs) = 2 /\ Len(pl.listen) = 2
    /\ DOMAIN pl.kvs[1] = { "", "cs", "proto" } /\ pl.kvs[1]["proto"] = "tcp"
    /\ DOMAIN pl.kvs[2] = { "", "cs" }
    /\ pl.listen[1].Proto = "tcp" /\ pl.listen[1].Addr = ":80"
    /\ pl.listen[2].Proto = "https" /\ pl.listen[2].Addr = ":81"

\* -cfg / --cfg, the flag that takes the next argument as its value
IsBareCfg(arg) == arg = ArgCfg \/ arg = ArgCfg2
\* -cfg= / --cfg= with a value that is empty, or empty without its quotes
EmptyCfgWords == { ArgCfgEq, ArgCfg2EqQuotes }
\* -cfg= / --cfg= with the quoted path p
QuotedCfgWords == { ArgCfgEqQuoted, ArgCfg2EqDQuoted }

RECURSIVE IsValuePos(_, _)
\* argument i is the value of the -cfg / --cfg right before it
IsValuePos(args, i) ==
    i >= 3 /\ IsBareCfg(args[i - 1]) /\ ~IsValuePos(args, i - 1)

\* argument i is a config-file flag / a version flag, and not a value
CfgFlagAt(args, i) == i >= 2 /\ IsCfgFlag(args[i]) /\ ~IsValuePos(args, i)
VersionAt(args, i) == i >= 2 /\ IsVersionFlag(args[i]) /\ ~IsValuePos(args, i)

\* argument i is a config-file flag without a usable path
BadCfgAt(args, i) ==
    /\ CfgFlagAt(args, i)
    /\ \/ IsBareCfg(args[i]) /\ i = Len(args)
       \/ args[i] \in EmptyCfgWords

\* Load has returned errInvalidConfig
LoadInvalidConfig == ld.pc = "return" /\ ld.ret = LoadRet("nil", "errInvalidConfig")

\* the arguments parse hands on: not the config-file flags, not their
\* values, not the test flags
RECURSIVE PassedOn(_, _)
PassedOn(args, i) ==
    IF i > Len(args) THEN << >>
    ELSE (IF CfgFlagAt(args, i) \/ IsValuePos(args, i) \/ HasPrefix(args[i], PrefixTest)
          THEN << >> ELSE << args[i] >>) \o PassedOn(args, i + 1)

\* what parse does with the paths and the command line, in every case
CfgPathAndCmdline ==
    ld.pc \in { "props", "load" } =>
      /\ \A i \in DOMAIN ld.args :
           (/\ CfgFlagAt(ld.args, i) /\ ld.args[i] \in QuotedCfgWords
            /\ \A j \in DOMAIN ld.args : j > i => ~CfgFlagAt(ld.args, j))
           => ld.path = << "p" >>
      /\ ld.cmdline = << ld.args[1] >> \o PassedOn(ld.args, 2)
      /\ \A k \in DOMAIN ld.cmdline : ~IsCfgFlag(ld.cmdline[k])

\* C22 as stated: a -cfg / --cfg as the last argument, or a -cfg= / --cfg=
\* whose value is empty or empty without its quotes, makes Load return
\* errInvalidConfig; a quoted path is used without its quotes; the returned
\* command line holds neither the config-file flag nor its value.
C22_Original ==
    /\ ld.pc # "parse" =>
         ((\/ IsBareCfg(ld.args[Len(ld.args)]) /\ Len(ld.args) >= 2
           \/ \E i \in 2..Len(ld.args) : ld.args[i] \in EmptyCfgWords)
          => LoadInvalidConfig)
    /\ CfgPathAndCmdline

\* C22: a config-file flag without a usable path (-cfg / --cfg as the last
\* argument; -cfg= / --cfg= with a value that is empty or empty without its
\* quotes) makes Load return errInvalidConfig when the flag is not itself
\* the value of a -cfg / --cfg before it and no version flag (that is not
\* such a value) comes before it; the path of the last config-file flag, if
\* quoted, is used without its quotes; the returned command line is the
\* arguments without the config-file flags, their values and the test flags.
C22_CfgFlagParsing ==
    /\ ld.pc # "parse" =>
         \A i \in DOMAIN ld.args :
           (BadCfgAt(ld.args, i) /\ \A j \in 1..(i - 1) : ~VersionAt(ld.args, j))
           => LoadInvalidConfig
    /\ CfgPathAndCmdline

\* Load has returned errInvalidConfig for [f -cfg='p' -a --cfg=''].
C22_Witness ==
    LoadInvalidConfig /\ ld.args = << ArgExec, ArgCfgEqQuoted, ArgOther, ArgCfg2EqQuotes >>

\* the option is blank / has exactly two ;-separated parts / names no type
AuthBlank == TrimSpace(ld.opt) = << >>
AuthTwoParts == Len(Split(TrimSpace(ld.opt), ";")) = 2
AuthNoType == TrimSpace(Split(TrimSpace(ld.opt), ";")[1]) = << >>
AuthReturned == ld.pc = "return" /\ "auth" \in DOMAIN ld

\* the parts of C23 that do not depend on the order of the checks
AuthBlankPartsEnabled ==
    AuthReturned =>
      /\ AuthBlank => (ld.auth = AuthZero /\ ld.err = "nil")
      /\ (~AuthBlank /\ ~AuthTwoParts) => ld.err = "errInvalidConfig"
      /\ ld.auth.Enabled <=>
           (ld.err = "nil" /\ ld.auth.Type # << >> /\ ld.auth.ConfigFile # "")

\* C23 as stated: a blank option gives a disabled Auth and no error; an
\* option that has not exactly two parts gives errInvalidConfig; an option
\* of two parts gives "auth type required" when its type is empty and
\* "auth config file required" when its type is not empty and no file
\* has been given; Enabled holds exactly after a success with a type and
\* a file.
C23_Original ==
    /\ AuthBlankPartsEnabled
    /\ AuthReturned /\ ~AuthBlank /\ AuthTwoParts =>
         /\ AuthNoType => ld.err = "auth type required"
         /\ (~AuthNoType /\ ld.auth.ConfigFile = "") =>
              ld.err = "auth config file required"

\* the second part of the option has given a key/value pair
AuthHasPair ==
    ld.kvr.err = "nil" /\ Len(ld.kvr.kvs) >= 1 /\ DOMAIN ld.kvr.kvs[1] # { }

\* C23: a blank option gives a disabled Auth and no error; an option that
\* has not exactly two parts gives errInvalidConfig; an option of two
\* parts whose second part does not parse gives the parse error, and one
\* whose second part holds no key/value pair (an empty second part is
\* one) gives errInvalidConfig; with a key/value pair in the second part,
\* an empty type gives "auth type required", a type without a file gives
\* "auth config file required" and a type with a file succeeds; Enabled
\* holds exactly after a success with a type and a file.
C23_AuthOption ==
    /\ AuthBlankPartsEnabled
    /\ (AuthReturned /\ ~AuthBlank /\ AuthTwoParts) =>
         /\ ld.kvr.err # "nil" => ld.err = ld.kvr.err
         /\ (ld.kvr.err = "nil" /\ ~AuthHasPair) => ld.err = "errInvalidConfig"
         /\ ld.kvtext = << >> => ld.err = "errInvalidConfig"
         /\ AuthHasPair =>
              /\ ld.auth.ConfigFile = MapGet(ld.kvr.kvs[1], "file")
              /\ AuthNoType => ld.err = "auth type required"
              /\ (~AuthNoType /\ ld.auth.ConfigFile = "") =>
                   ld.err = "auth config file required"
              /\ (~AuthNoType /\ ld.auth.ConfigFile # "") => ld.err = "nil"

\* parseAuth has refused ";j" (no type, a second part with a file) with
\* "auth type required".
C23_Witness ==
    /\ AuthReturned /\ ld.opt = << ";", "j" >>
    /\ ld.err = "auth type required" /\ ld.auth.ConfigFile = "f"

\* the locals of watchBackend that a received notification writes
wbLocals == << svccfg, mancfg, next, t, wpc >>

\* C24: a step of watchBackend that receives a notification changes the
\* remembered value of at most one source, the other one is retained; the
\* remembered values are always values as they were received (none is a
\* merge of two notifications); and the concatenation is built from the
\* two remembered values.
C24_NotificationUpdatesOneSource ==
    [][ (wpc = "select" /\ wbLocals' # wbLocals) =>
          /\ svccfg' = svccfg \/ mancfg' = mancfg
          /\ svccfg' \in Snapshots /\ mancfg' \in Snapshots
          /\ next' = Concat(svccfg', mancfg') ]_vars

\* A discovered-route notification has replaced the remembered discovered
\* text while the manual text "a" was retained.
C24_Witness ==
    /\ wpc = "compile" /\ svccfg = << "!" >> /\ mancfg = << "a" >>
    /\ last = Concat(<< "a" >>, << "a" >>)
    /\ next = Concat(<< "!" >>, << "a" >>)

\* the text compiles, and tbl is the table compiled from it
CompiledFrom(tbl, text) == ~NewTable(text).err /\ tbl = NewTable(text).t

\* C25: outside a publish step (route.SetTable, logRoutes, last = next) the
\* current table is the one compiled from the previously accepted
\* concatenation last; the current table changes only in the step that
\* publishes a successfully compiled table; and when the diff logger is
\* called (with last and next), last is the text of the table that was
\* replaced and next the text of the table just published.
C25_LastIsTextOfCurrentTable ==
    /\ [](wpc \in { "select", "compile", "publish" } => CompiledFrom(table, last))
    /\ [](wpc = "log" => (CompiledFrom(table, next) /\ table = t))
    /\ [][ table' # table =>
             /\ wpc = "publish" /\ wpc' = "log"
             /\ CompiledFrom(table, last) /\ CompiledFrom(table', next)
             /\ last' = last /\ next' = next ]_vars

\* The diff logger is called for the second publish: "a\n" is the text of
\* the table replaced, "a\na" the text of the table just published.
C25_Witness ==
    /\ wpc = "log" /\ nSet = "many"
    /\ last = Concat(<< "a" >>, << >>) /\ next = Concat(<< "a" >>, << "a" >>)
    /\ table = << "a", "a" >>

\* C26: between two cycles of the hot-reload loop, once a table has been
\* published, the remembered discovered and manual texts are those of the
\* last accepted concatenation - also after a notification whose
\* concatenation failed to compile, so that a later notification of the
\* other source is compiled together with the last accepted text of the
\* failing source.
C26_FailedUpdateLeavesNoTrace ==
    (wpc = "select" /\ nSet # "none") => Concat(svccfg, mancfg) = last

\* the steps of the watchBackend goroutine: it is started, and it goes
\* round its loop
WatchSteps ==
    { << "off", "select" >>, << "select", "compile" >>, << "compile", "select" >>,
      << "compile", "publish" >>, << "publish", "log" >>, << "log", "select" >> }

IbPcs == { "ib_enter", "ib_new", "ib_register", "ib_deadline", "ib_sleep", "ib_shutcheck" }
InInitBackend == mpc \in IbPcs
\* the process has ended in initBackend
EndedInInitBackend == ~Running /\ InInitBackend
\* initBackend has returned
Succeeded == mpc \notin IbPcs \cup { "load", "version" }
\* exit.Fatal after the deadline
Exhausted == exitState = "code1" /\ mpc = "ib_deadline" /\ now > deadline
\* exit.Exit(1) at the check of shuttingDown
AbortedByShutdown == exitState = "code1" /\ mpc = "ib_shutcheck" /\ shuttingDown > 0
\* exit.Fatal for a backend kind initBackend does not know
UnknownBackend == exitState = "code1" /\ mpc = "ib_new" /\ cfg.Backend \notin BackendKinds
\* Register has succeeded on the handle in registry.Default
RegisterSucceeded == registryDefault \in { "registered", "deregistered" }

\* C28 as stated: initBackend ends as Succeeded, Exhausted or
\* Aborted-by-shutdown; it has returned only after a successful Register,
\* and watchBackend runs only with a registered backend.
C28_Original ==
    /\ EndedInInitBackend => (Exhausted \/ AbortedByShutdown)
    /\ Succeeded => RegisterSucceeded
    /\ wpc # "off" => RegisterSucceeded

\* C28: initBackend ends in exactly one of four ways: it returns
\* (Succeeded), or the process exits after the deadline (Exhausted), at the
\* check of shuttingDown (Aborted-by-shutdown), or at once for a backend
\* kind it does not know; it has returned only after Register has
\* succeeded on the handle in registry.Default, and watchBackend runs only
\* with that registered backend.
C28_RetryLoopOutcomes ==
    /\ EndedInInitBackend => (Exhausted \/ AbortedByShutdown \/ UnknownBackend)
    /\ ~(Exhausted /\ AbortedByShutdown) /\ ~(Exhausted /\ UnknownBackend)
    /\ ~(AbortedByShutdown /\ UnknownBackend)
    /\ Succeeded => (RegisterSucceeded /\ cfg.Backend \in BackendKinds)
    /\ wpc # "off" => RegisterSucceeded

\* watchBackend has been started after a Register that succeeded while the
\* shutdown handler was already running.
C28_Witness ==
    wpc = "select" /\ registryDefault = "registered" /\ shuttingDown = 1

\* the step in which the handler decides about the deregistration
DeregisterStep == hpc = "dereg" /\ hpc' = "done"
DeregisterInvoked == hlog' = Append(hlog, "deregister")
DeregisterSkipped == hlog' = hlog /\ registryDefault' = registryDefault

\* C29 as stated: the handler invokes Deregister exactly when Register has
\* succeeded on the handle in registry.Default, and skips it otherwise;
\* with or without it the handler runs to its end.
C29_Original ==
    [][ DeregisterStep =>
          IF registryDefault = "registered" THEN DeregisterInvoked
          ELSE DeregisterSkipped ]_vars

\* C29: the handler invokes Deregister exactly when registry.Default holds
\* a backend handle - one whose construction has succeeded, whether or not
\* its Register has succeeded yet - and skips it when registry.Default is
\* nil; with or without it the handler runs to its end, after the other
\* steps of the shutdown sequence.
C29_DeregisterIffHandle ==
    /\ [][ DeregisterStep =>
             IF registryDefault # "nil" THEN DeregisterInvoked
             ELSE DeregisterSkipped ]_vars
    /\ [](hpc = "done" => IsPrefix(TeardownOrder(FALSE), hlog))

\* The handler has called Deregister on a handle that was constructed but
\* not registered.
C29_Witness ==
    /\ hpc = "done" /\ registryDefault = "unregistered"
    /\ hlog = TeardownOrder(TRUE)

\* the kind of serving unit a protocol tag selects
KindOfProto(proto) ==
    IF proto \in { "http", "https" } THEN "http"
    ELSE IF proto = "tcp" THEN "tcp" ELSE "sni"

\* C30: startServers goes through the descriptors in order; every
\* descriptor it has passed has one serving unit of its own, of the kind
\* its protocol tag selects (http, https: HTTP proxy; tcp: TCP proxy;
\* tcp+sni: SNI proxy), and no other unit exists; it never passes a
\* descriptor with another protocol tag or one whose TLS configuration
\* cannot be built - the process ends there with exit.Fatal, before a unit
\* is started for it - so startServers returns only with every descriptor
\* served.
C30_OneUnitPerDescriptor ==
    /\ \A i \in 1..Len(cfg.Listen) :
         IF i < idx
         THEN /\ units[i] # "none"
              /\ cfg.Listen[i].Proto \in Protos
              /\ kinds[i] = KindOfProto(cfg.Listen[i].Proto)
              /\ cfg.Listen[i].CertSource \notin BrokenCertSources
         ELSE units[i] = "none" /\ kinds[i] = "none"
    /\ \A u \in DOMAIN units : u > Len(cfg.Listen) => units[u] = "none"
    /\ mpc \in { "exit_wait", "done" } => idx = Len(cfg.Listen) + 1
    /\ (mpc = "start_servers" /\ ~Running /\ idx <= Len(cfg.Listen)
          /\ (cfg.Listen[idx].Proto \notin Protos
                \/ cfg.Listen[idx].CertSource \in BrokenCertSources))
         => exitState = "code1"

\* The process has ended at the second descriptor, whose protocol tag is
\* unknown, after the SNI proxy of the first one was started.
C30_Witness ==
    /\ exitState = "code1" /\ mpc = "start_servers" /\ idx = 2
    /\ Len(cfg.Listen) = 2
    /\ cfg.Listen[1] = Descriptor("tcp+sni", "") /\ kinds[1] = "sni"
    /\ cfg.Listen[2] = Descriptor("udp", "")
    /\ units[1] = "spawned" /\ units[2] = "none"

\* the table the lookup in flight has read holds a route for its host
LookupFinds == \E i \in DOMAIN lksnap : lksnap[i] = lkhost

\* C31: a lookup that finds no target adds exactly one to the not-found
\* counter and returns no target (nil from the Lookup function of an HTTP
\* or HTTPS listener, the empty host from the function of a TCP or TCP+SNI
\* listener); a lookup that finds a target leaves the counter alone and
\* returns the target; nothing but a lookup moves the counter, and an HTTP
\* unit resolves with Lookup, a TCP or SNI unit with lookupHostFn.
C31_MissCountsOnceAndReturnsNothing ==
    /\ [][ LookupTarget =>
             IF LookupFinds
             THEN notFound' = notFound /\ lkres' = lkhost
             ELSE /\ notFound' = notFound + 1
                  /\ lkres' = (IF lkpc = "lookup" THEN "nil" ELSE "") ]_vars
    /\ [][ notFound' # notFound => InLookup /\ lkpc' = "idle" ]_vars
    /\ [][ \A u \in DOMAIN units, h \in Hosts :
             LookupGetTable(u, h) =>
               /\ kinds[u] \in { "http", "tcp", "sni" }
               /\ (lkpc' = "lookup") = (kinds[u] = "http") ]_vars
    /\ [](notFound <= nLookups)

\* A lookup of a TCP or TCP+SNI listener for host "b" has missed in the
\* table [a]: one miss is counted and the empty host was returned.
C31_Witness ==
    /\ lkpc = "idle" /\ nLookups = 1 /\ notFound = 1
    /\ lkres = "" /\ table = << "a" >>
    /\ \A u \in DOMAIN kinds : kinds[u] \in { "admin", "tcp", "sni", "none" }

\* load has returned
LoadReturned == ld.pc = "return" /\ "c" \in DOMAIN ld
\* the three validated options have admitted values
OptionsAdmitted ==
    /\ ld.c.Strategy \in { "rr", "rnd" }
    /\ ld.c.Matcher \in { "prefix", "glob" }
    /\ ld.c.Access \in { "ro", "rw" }

\* C32: Load returns an error and a nil config whenever proxy.strategy is
\* not rr or rnd, proxy.matcher is not prefix or glob, or ui.access is not
\* ro or rw; so a config it returns holds one of these values in each of the
\* three fields, and it holds registry.backend as given and the routes
\* format (proxy.log.routes if set, else log.routes.format) whatever they
\* are: with the three options admitted, load fails only in the steps
\* before the three checks.
C32_ValidatedOptions ==
    LoadReturned =>
         /\ ld.ret.cfg \in { "nil", "cfg" }
         /\ (~OptionsAdmitted => ld.ret.cfg = "nil" /\ ld.ret.err # "nil")
         /\ (ld.ret.err = "nil") = (ld.ret.cfg = "cfg")
         /\ ld.ret.cfg = "cfg" =>
              /\ OptionsAdmitted
              /\ ld.c.Backend \in FlagValues("registry.backend")
              /\ ld.c.RoutesFormat =
                   (IF ld.proxyLogRoutes # "" THEN ld.proxyLogRoutes
                    ELSE ld.logRoutesFormat)
         /\ (OptionsAdmitted /\ ld.ret.err # "nil") => ld.ret.err = "err"

\* Load has returned a config whose backend and routes format are values
\* nothing else in the program knows.
C32_Witness ==
    /\ LoadReturned /\ ld.ret.cfg = "cfg" /\ ld.ret.err = "nil"
    /\ ld.c.Backend = "value" /\ ld.c.RoutesFormat = "value"
    /\ ld.c.Strategy = "rr" /\ ld.c.Access = "ro"

\* the text is a number (decimal, or octal after a leading 0)
IsNumber(s) == ParseUint(s).err = "nil"
\* the number of the text
NumberOf(s) == ParseUint(s).n

\* C33: a numeric value of tlsmin, tlsmax or tlsciphers is accepted only
\* within 0..65535: a number above 65535 gives an error, and an accepted
\* number is stored as it is, never modulo 2^16.
C33_Uint16Range ==
    /\ (pl.pc = "return" /\ "n" \in DOMAIN pl /\ IsNumber(pl.v)) =>
         /\ NumberOf(pl.v) > 65535 => pl.err # "nil"
         /\ pl.err = "nil" => pl.n = NumberOf(pl.v)
    /\ (pl.pc = "return" /\ "c" \in DOMAIN pl) =>
         LET parts == Split(pl.v, ",")
         IN  /\ (\E i \in DOMAIN parts :
                   IsNumber(parts[i]) /\ NumberOf(parts[i]) > 65535) => pl.err # "nil"
             /\ pl.err = "nil" =>
                  /\ Len(pl.c) = Len(parts)
                  /\ \A i \in DOMAIN parts : pl.c[i] = NumberOf(parts[i])

\* C34: once shuttingDown is set, main starts no serving unit, neither the
\* admin listener nor a proxy listener: a unit that has not been started
\* when the flag is set is never started.
C34_NoListenerStartedAfterShutdown ==
    [][ shuttingDown = 1 =>
          \A u \in DOMAIN units : units[u] = "none" => units'[u] = "none" ]_vars

\* C35: a termination signal that arrives while main waits for the first
\* routing table leads to the end of the process, whether or not a first
\* table is ever published.
C35_SignalAtGateEndsProcess ==
    (mpc = "wait_first" /\ signals # "none") ~> ~Running

\* the loop has taken every notification delivered so far through its cycle
AllProcessed == wpc = "select" /\ (failed \/ nSet # "none")

\* C36: when the loop has processed every notification delivered so far
\* and is back at its select, and the latest discovered text, a newline and
\* the latest manual text compile, the current table is the table compiled
\* from exactly that text - also after a failed compile, after a
\* notification that was skipped as unchanged, and whichever source
\* delivered last.
C36_TableFollowsLatestValues ==
    (AllProcessed /\ ~NewTable(Concat(svccfg, mancfg)).err) =>
        /\ table = NewTable(Concat(svccfg, mancfg)).t
        /\ last = Concat(svccfg, mancfg)

\* After a table was published from "a\n" and a malformed discovered text
\* failed to compile, the discovered text "a" came again and was skipped:
\* the table of "a\n" is current.
C36_Witness ==
    /\ AllProcessed /\ failed /\ nSet = "one"
    /\ svccfg = << "a" >> /\ mancfg = << >> /\ next = last
    /\ last = Concat(<< "a" >>, << >>) /\ table = << "a" >> /\ t = NilTable

\* a proxy listener of cfg.Listen has been started
ProxyStarted == \E u \in DOMAIN units : u # Admin /\ units[u] # "none"
\* route.SetTable has stored a successfully compiled table, and it is current
CompiledTableCurrent ==
    /\ nSet # "none"
    /\ table # NilTable
    /\ CompiledFrom(table, IF wpc = "log" THEN next ELSE last)

\* C37: a proxy listener of cfg.Listen is started only after the readiness
\* gate has fired, and the gate has fired only after a successfully
\* compiled table was stored as the current one - not after a failed
\* compile and not after a skipped notification; so a successfully
\* compiled table is current whenever a proxy listener is in a lookup, and
\* as long as no compile has succeeded no proxy listener is started and
\* main has not passed the gate.
C37_ListenersOnlyAfterCompiledTable ==
    /\ ProxyStarted => first = "closed"
    /\ first = "closed" => (CompiledTableCurrent /\ onceDone)
    /\ InLookup => (CompiledTableCurrent /\ ProxyStarted)
    /\ nSet = "none" =>
         /\ ~ProxyStarted
         /\ first = "open"
         /\ mpc \notin { "start_servers", "exit_wait", "done" }

\* A first compile has failed and a later one has succeeded; the proxy
\* listener serves and is in a lookup on the one table published.
C37_Witness ==
    /\ failed /\ nSet = "one" /\ first = "closed"
    /\ units[1] = "serving" /\ InLookup /\ lksnap = table
    /\ mpc = "exit_wait" /\ wpc = "select"

RECURSIVE ListenOutcomes(_)
\* the frames parseListen can return with from the frame, one for every
\* order in which the keys still to visit are visited
ListenOutcomes(frame) ==
    IF frame.pc = "return" THEN { frame }
    ELSE IF frame.todo = { } THEN { ParseListenEnd(frame) }
    ELSE UNION { ListenOutcomes(ParseListenStep(frame, k)) : k \in frame.todo }

\* C38: parseListen gives the same result for every order in which the
\* keys of the descriptor are visited: every order succeeds or every order
\* fails, and the orders that succeed return the same Listen.
C38_IterationOrderIndependent ==
    pl.pc = "range" =>
      \A f, g \in ListenOutcomes(pl) :
        /\ (f.err = "nil") = (g.err = "nil")
        /\ f.err = "nil" => f.l = g.l
====
